---- MODULE Spec2Model ----
(***************************************************************************)
(* Model of the mamo-compounder decision engine.                           *)
(*                                                                         *)
(* Part 1, position optimizer (src/src/utils/strategy-optimizer.ts):       *)
(*   optimizeStrategyPositions fetches the APY feed once per cycle and     *)
(*   then calls processStrategyOptimization for every listed strategy, one *)
(*   after the other.  strategy-optimizer.ts holds two definitions of the  *)
(*   module: lines 1-361 (split scale 10000, principal-balance gate) and   *)
(*   lines 363-669 (split scale 100, no balance gate).  `variant` says     *)
(*   which of the two a deployment runs.  processStrategyOptimization      *)
(*   reads and writes only the row and the contract of the strategy it is  *)
(*   called for, so the model follows one strategy S through the cycles.   *)
(*                                                                         *)
(* Part 2, reward compounding (src/cron.ts, src/unnamed/part_000,          *)
(* src/src/utils/cow-swap.ts): claim, balance read, quote, order,          *)
(* isValidSignature and submission for one reward; see SpecCompound.       *)
(*                                                                         *)
(* Part 3, task scheduler (src/unnamed/part_002, src/unnamed/part_004):    *)
(* the registry of periodic tasks and the loop that starts them; see       *)
(* SpecScheduler.                                                          *)
(*                                                                         *)
(* Part 4, one run of a listing task over the pages of the indexer, with   *)
(* its failures and write transactions; see SpecBatch.                     *)
(*                                                                         *)
(* Units.  APYs are exact decimals counted in thousandths of a percentage  *)
(* point (5.0% = 5000); the store keeps them as NUMERIC(10,2), that is     *)
(* rounded to a multiple of 10.  Principal balances are counted in tenths  *)
(* of a USDC (0.3 USDC = 3).                                               *)
(***************************************************************************)
EXTENDS Integers, Sequences, FiniteSets, TLC

----------------------------------------------------------------------------
(* Bounds of the model *)

\* APY readings the yield feed may return (thousandths of a percent).
MarketApyValues == {3000, 5000, 6300}
VaultApyValues == {5000, 5500, 5996, 6000}

\* Principal balances the indexer may report (tenths of a USDC).
BalanceValues == {0, 3, 1000}

Variants == {1, 2}

\* Outcomes of walletClient.writeContract + waitForTransactionReceipt.
\*   success     mined and applied
\*   reverted    mined, status reverted: waitForTransactionReceipt returns
\*               the receipt without throwing and the code never reads its status
\*   sendError   writeContract throws, nothing is broadcast
\*   waitLanded  the receipt wait throws, the transaction lands anyway
\*   waitDropped the receipt wait throws, the transaction never lands
TxOutcomes == {"success", "reverted", "sendError", "waitLanded", "waitDropped"}

TxThrows(o) == o \in {"sendError", "waitLanded", "waitDropped"}

TxApplies(o) == o \in {"success", "waitLanded"}

----------------------------------------------------------------------------
(* Program constants and pure functions *)

\* Variation: the bar is half a percentage point.
minImprovementThreshold_Half == 1000 \div 2

\* const minImprovementThreshold = 1.0
minImprovementThreshold == 1000

\* Denominator of the split written by each variant's determineBestSplit.
SplitTotal(v) == IF v = 1 THEN 10000 ELSE 100

Split(m, v) == [mToken |-> m, vault |-> v]

\* Variation: the comparison is >=, a tie goes to the market side.
determineBestSplit_TieToMarket(marketAPY, vaultAPY) ==
    IF marketAPY >= vaultAPY THEN Split(10000, 0)
    ELSE Split(0, 10000)

\* Variation: on a tie both sides are given the whole position.
determineBestSplit_TieToBoth(marketAPY, vaultAPY) ==
    IF marketAPY > vaultAPY THEN Split(10000, 0)
    ELSE IF vaultAPY > marketAPY THEN Split(0, 10000)
    ELSE Split(10000, 10000)

\* strategy-optimizer.ts lines 107-120
determineBestSplit(marketAPY, vaultAPY) ==
    IF marketAPY > vaultAPY THEN Split(10000, 0)
    ELSE IF vaultAPY > marketAPY THEN Split(0, 10000)
    ELSE Split(5000, 5000)

\* strategy-optimizer.ts lines 468-481
determineBestSplitLegacy(marketAPY, vaultAPY) ==
    IF marketAPY > vaultAPY THEN Split(100, 0)
    ELSE IF vaultAPY > marketAPY THEN Split(0, 100)
    ELSE Split(50, 50)

\* Math.max
Max(a, b) == IF a >= b THEN a ELSE b

\* apy NUMERIC(10, 2): the store rounds to two decimals, half away from zero.
RoundNumeric(apy) == ((apy + 5) \div 10) * 10

\* A row of table positions.  strategy_type is the constant
\* 'usdc_stablecoin'; last_updated is written and never read by the engine.
NoPosition == [exists |-> FALSE, split_mtoken |-> 0, split_vault |-> 0, apy |-> 0]

Position(split, apy) ==
    [exists |-> TRUE, split_mtoken |-> split.mToken, split_vault |-> split.vault, apy |-> apy]

\* Variation: the write leaves the apy column at its default.
StoredRow_DropsApy(p) == [p EXCEPT !.apy = 0]

\* What insertPosition / updatePosition leave in the table for a Position object.
StoredRow(p) == [p EXCEPT !.apy = RoundNumeric(p.apy)]

SplitOfPosition(p) == Split(p.split_mtoken, p.split_vault)

\* Splits the strategy contract may hold when the engine first meets it.
ChainSplits(v) ==
    LET T == SplitTotal(v) IN
    {Split(T, 0), Split(0, T), Split(T \div 2, T \div 2), Split((4 * T) \div 10, (6 * T) \div 10)}

----------------------------------------------------------------------------
(* State *)

VARIABLES
    variant,     \* which definition of processStrategyOptimization is deployed
    position,    \* row of strategy S in table positions, NoPosition when absent
    chainSplit,  \* splitMToken/splitVault held by the contract of strategy S
    apyData,     \* APYData of the current (or last) optimizer cycle
    sameInput,   \* the cycle's APY reading equals the previous cycle's
    optPc,       \* optimizeStrategyPositions: "init", "run", "completed", "skipped"
    lastEnd,     \* how the previous processStrategyOptimization of S ended
    run,         \* what the processStrategyOptimization call of this cycle saw and did
    lastAttempt  \* what the last call met outside the engine and what it sent

optVars == <<variant, position, chainSplit, apyData, sameInput, optPc, lastEnd, run, lastAttempt>>

\* State of the reward compounding task (its actions are further down).
VARIABLES
    pipeline,              \* "cron" or "modular"
    minUsdValueThreshold,  \* parseFloat(env.MIN_USD_VALUE_THRESHOLD), in USD units
    strategyAddress,       \* address of the strategy being processed
    returned,              \* the tuple getUserRewards returned for it
    cpc,                   \* where the processing of the current reward stands
    reward,                \* the Rewards tuple being processed
    loc,                   \* local variables of the processing of this reward
    calls                  \* external calls made for this reward, in order

compVars == <<pipeline, minUsdValueThreshold, strategyAddress, returned, cpc, reward, loc, calls>>

\* State of the task scheduler of the server (its actions are further down).
VARIABLES
    tasks,       \* the registry: per task the age of its lastRun and its running field
    schedPc,     \* "loop", "await" (inside await task.fn()) or "timeout"
    schedIdx,    \* position of the for loop of taskScheduler in the registry
    instances,   \* per task, the number of invocations of task.fn not yet settled
    outcomes     \* per task, how its last invocation went: "none", "configMissing" or "ran"

schedVars == <<tasks, schedPc, schedIdx, instances, outcomes>>

\* State of the server process (part_002 lines 1116-1132).
VARIABLES
    env,         \* the required environment variables that are set
    store        \* initializeDatabase: "pending", "ready" or "failed"

procVars == <<env, store>>

\* State of the swap of one reward in the scheduled worker (src/index.ts,
\* second definition of processStrategies; its actions are further down).
VARIABLES
    workerPc,     \* "off", "getSwapQuote", "encodeOrderForSignature", "sendOrder", "done"
    workerTime,   \* the time of the run, in minutes
    quoteParams,  \* quoteResult.quote
    encodedOrder, \* the order encodeOrderForSignature hashed into the signature
    sentOrder     \* the OrderCreation handed to sendOrder

workerVars == <<workerPc, workerTime, quoteParams, encodedOrder, sentOrder>>

\* State of one run of a listing task over the pages of the indexer (its
\* actions are further down).
VARIABLES
    job,          \* the task that runs: an element of TaskFns
    bpc,          \* where the run stands
    pageLens,     \* number of strategies of each page fetched so far
    nextCursor,   \* nextCursor of the last page fetched, 0 for null
    strategyIdx,  \* position of the for loop over the strategies of the page
    rewardsLen,   \* number of rewards fetched for the strategy at hand
    rewardIdx,    \* position of the for loop over these rewards
    processed,    \* <<page, index>> of every strategy handed to processing, in order
    failure,      \* the first failure of a strategy or reward caught in the run
    inFlight,     \* write transactions sent whose receipt wait has not settled
    writes        \* write transactions sent in the run

batchVars == <<job, bpc, pageLens, nextCursor, strategyIdx, rewardsLen, rewardIdx,
               processed, failure, inFlight, writes>>

vars == <<optVars, compVars, schedVars, batchVars, procVars, workerVars>>

NoApy == [exists |-> FALSE, marketAPY |-> 0, vaultAPY |-> 0, bestAPY |-> 0, bestSplit |-> Split(0, 0)]

NoRun ==
    [branch |-> "none", before |-> NoPosition, chainBefore |-> Split(0, 0),
     balanceRead |-> FALSE, usdcBalance |-> 0,
     tx |-> <<>>, txOutcome |-> "none", threw |-> FALSE, prev |-> "none"]

NoAttempt ==
    [readsOk |-> TRUE, balOk |-> TRUE, balance |-> 0, lookupFailed |-> FALSE,
     tx |-> <<>>, txOutcome |-> "none"]

InitOptimizer ==
    /\ lastAttempt = NoAttempt
    /\ variant \in Variants
    /\ position = NoPosition
    /\ chainSplit \in ChainSplits(variant)
    /\ apyData = NoApy
    /\ sameInput = FALSE
    /\ optPc = "init"
    /\ lastEnd = "none"
    /\ run = NoRun

----------------------------------------------------------------------------
(* Position optimizer *)

\* strategy-optimizer.ts lines 313-361, called at the start of a cycle by
\* optimizeStrategyPositions; a feed failure throws into the caller's catch
\* and the cycle is skipped.
getAPYData ==
    /\ optPc # "run"
    /\ \/ \E m \in MarketApyValues, v \in VaultApyValues :
            /\ apyData' = [exists |-> TRUE, marketAPY |-> m, vaultAPY |-> v,
                           bestAPY |-> Max(m, v),
                           bestSplit |-> IF variant = 1 THEN determineBestSplit(m, v)
                                         ELSE determineBestSplitLegacy(m, v)]
            /\ sameInput' = (apyData.exists /\ apyData.marketAPY = m /\ apyData.vaultAPY = v)
            /\ optPc' = "run"
       \/ /\ optPc' = "skipped"
          /\ UNCHANGED <<apyData, sameInput>>
    /\ run' = NoRun
    /\ UNCHANGED <<variant, position, chainSplit, lastEnd, lastAttempt, compVars, schedVars, batchVars, procVars, workerVars>>

\* strategy-optimizer.ts lines 127-151: a failed lookup and a missing USDC
\* entry both give 0.
getStrategyUSDCBalance(balOk, balance) == IF balOk THEN balance ELSE 0

\* Effect of updateStrategyPosition (lines 57-99) on the contract.
ApplyTx(chain, split, txo) == IF TxApplies(txo) THEN split ELSE chain

Result(pos, chain, branch, balanceRead, usdcBalance, tx, txo, threw) ==
    [pos |-> pos, chain |-> chain, branch |-> branch, balanceRead |-> balanceRead,
     usdcBalance |-> usdcBalance, tx |-> tx, txOutcome |-> txo, threw |-> threw]

\* Variation: the new row keeps the split read from the contract after the
\* rebalance (the assignment of lines 211-212 is missing).
SeedPosition_KeepsSeededSplit(chain, apy, in) ==
    IF ~in.splitOk
    THEN Result(NoPosition, chain, "seed", FALSE, 0, <<>>, "none", TRUE)
    ELSE
    LET currentSplit == chain
        bestSplit == determineBestSplit(apy.marketAPY, apy.vaultAPY)
        usdcBalance == getStrategyUSDCBalance(in.balOk, in.balance)
    IN  IF usdcBalance > 0
        THEN IF TxThrows(in.txo)
             THEN Result(NoPosition, ApplyTx(chain, bestSplit, in.txo), "seed",
                         TRUE, usdcBalance, <<bestSplit>>, in.txo, TRUE)
             ELSE Result(IF in.dbOk THEN StoredRow(Position(currentSplit, apy.bestAPY)) ELSE NoPosition,
                         ApplyTx(chain, bestSplit, in.txo), "seed",
                         TRUE, usdcBalance, <<bestSplit>>, in.txo, ~in.dbOk)
        ELSE Result(IF in.dbOk THEN StoredRow(Position(currentSplit, apy.bestAPY)) ELSE NoPosition,
                    chain, "seed", TRUE, usdcBalance, <<>>, "none", ~in.dbOk)

\* strategy-optimizer.ts lines 176-225: no row in the store.
SeedPosition(chain, apy, in) ==
    IF ~in.splitOk
    THEN Result(NoPosition, chain, "seed", FALSE, 0, <<>>, "none", TRUE)
    ELSE
    LET currentSplit == chain
        bestSplit == determineBestSplit(apy.marketAPY, apy.vaultAPY)
        usdcBalance == getStrategyUSDCBalance(in.balOk, in.balance)
    IN  IF usdcBalance > 0
        THEN IF TxThrows(in.txo)
             THEN Result(NoPosition, ApplyTx(chain, bestSplit, in.txo), "seed",
                         TRUE, usdcBalance, <<bestSplit>>, in.txo, TRUE)
             ELSE Result(IF in.dbOk THEN StoredRow(Position(bestSplit, apy.bestAPY)) ELSE NoPosition,
                         ApplyTx(chain, bestSplit, in.txo), "seed",
                         TRUE, usdcBalance, <<bestSplit>>, in.txo, ~in.dbOk)
        ELSE Result(IF in.dbOk THEN StoredRow(Position(currentSplit, apy.bestAPY)) ELSE NoPosition,
                    chain, "seed", TRUE, usdcBalance, <<>>, "none", ~in.dbOk)

\* Variation: the copy of the row keeps the old apy.
UpdatedPosition_StaleApy(existingPosition, apy) == existingPosition

\* strategy-optimizer.ts lines 252-257: the row with the new best APY.
UpdatedPosition(existingPosition, apy) == [existingPosition EXCEPT !.apy = apy.bestAPY]

\* strategy-optimizer.ts lines 227-303: a row exists.
EvaluatePosition(existingPosition, chain, apy, in) ==
    LET bestSplit == determineBestSplit(apy.marketAPY, apy.vaultAPY)
        currentSplitMatchesBest ==
            /\ existingPosition.split_mtoken = bestSplit.mToken
            /\ existingPosition.split_vault = bestSplit.vault
        apyImprovement == apy.bestAPY - existingPosition.apy
        apyImproved == apyImprovement >= minImprovementThreshold
        updatedPosition == UpdatedPosition(existingPosition, apy)
        usdcBalance == getStrategyUSDCBalance(in.balOk, in.balance)
    IN  IF apyImproved /\ ~currentSplitMatchesBest
        THEN IF usdcBalance > 0
             THEN IF TxThrows(in.txo)
                  THEN Result(existingPosition, ApplyTx(chain, bestSplit, in.txo), "steady",
                              TRUE, usdcBalance, <<bestSplit>>, in.txo, TRUE)
                  ELSE Result(IF in.dbOk
                              THEN StoredRow([updatedPosition EXCEPT !.split_mtoken = bestSplit.mToken,
                                                                     !.split_vault = bestSplit.vault])
                              ELSE existingPosition,
                              ApplyTx(chain, bestSplit, in.txo), "steady",
                              TRUE, usdcBalance, <<bestSplit>>, in.txo, ~in.dbOk)
             ELSE Result(IF in.dbOk THEN StoredRow(updatedPosition) ELSE existingPosition,
                         chain, "steady", TRUE, usdcBalance, <<>>, "none", ~in.dbOk)
        ELSE Result(existingPosition, chain, "steady", FALSE, 0, <<>>, "none", FALSE)

\* What the external calls of one processStrategyOptimization may return:
\* getPosition fails; or getCurrentSplit fails; or both return and the
\* balance lookup, the transaction and the store writes end one way or another.
OptimizerInputs ==
    LET Full == [getOk : {TRUE}, splitOk : {TRUE}, balOk : {TRUE}, balance : BalanceValues,
                 txo : TxOutcomes, dbOk : BOOLEAN, dbOk2 : BOOLEAN]
        Base == [getOk |-> TRUE, splitOk |-> TRUE, balOk |-> TRUE, balance |-> 0,
                 txo |-> "success", dbOk |-> TRUE, dbOk2 |-> TRUE]
    IN  Full \cup {[i EXCEPT !.balOk = FALSE] : i \in {j \in Full : j.balance = 0}}
             \cup {[Base EXCEPT !.getOk = FALSE], [Base EXCEPT !.splitOk = FALSE]}

\* What a call met: whether the reads of the store and of the contract
\* returned, what the indexer had to say about the balance, whether a
\* lookup that was made failed (strategy-optimizer.ts lines 146-150), and
\* the transaction sent with its outcome.
Attempt(r, in) ==
    [readsOk |-> in.getOk /\ in.splitOk, balOk |-> in.balOk, balance |-> in.balance,
     lookupFailed |-> r.balanceRead /\ ~in.balOk,
     tx |-> r.tx, txOutcome |-> r.txOutcome]

\* Bookkeeping shared by both variants: record the outcome of the call; the
\* loop of optimizeStrategyPositions (part_002 lines 959-968) is then done
\* with strategy S.
FinishRun(r) ==
    /\ position' = r.pos
    /\ chainSplit' = r.chain
    /\ run' = [branch |-> r.branch, before |-> position, chainBefore |-> chainSplit,
               balanceRead |-> r.balanceRead, usdcBalance |-> r.usdcBalance,
               tx |-> r.tx, txOutcome |-> r.txOutcome, threw |-> r.threw, prev |-> lastEnd]
    /\ lastEnd' = IF r.threw THEN "threw" ELSE "ok"
    /\ optPc' = "completed"
    /\ UNCHANGED <<variant, apyData, sameInput, compVars, schedVars, batchVars, procVars, workerVars>>

\* strategy-optimizer.ts lines 161-307
processStrategyOptimization ==
    /\ optPc = "run"
    /\ variant = 1
    /\ \E in \in OptimizerInputs :
        LET existingPosition == position
            r == IF ~in.getOk
                 THEN Result(existingPosition, chainSplit, "readError", FALSE, 0, <<>>, "none", TRUE)
                 ELSE IF ~existingPosition.exists
                 THEN SeedPosition(chainSplit, apyData, in)
                 ELSE EvaluatePosition(existingPosition, chainSplit, apyData, in)
        IN  FinishRun(r) /\ lastAttempt' = Attempt(r, in)

\* strategy-optimizer.ts lines 505-548: no row in the store.  The row is
\* inserted with the contract's split before the rebalance is attempted.
SeedPositionLegacy(chain, apy, in) ==
    IF ~in.splitOk
    THEN Result(NoPosition, chain, "seed", FALSE, 0, <<>>, "none", TRUE)
    ELSE
    LET currentSplit == chain
        newPosition == Position(currentSplit, Max(apy.marketAPY, apy.vaultAPY))
        bestSplit == determineBestSplitLegacy(apy.marketAPY, apy.vaultAPY)
        updatedPosition == [newPosition EXCEPT !.split_mtoken = bestSplit.mToken,
                                               !.split_vault = bestSplit.vault]
    IN  IF ~in.dbOk
        THEN Result(NoPosition, chain, "seed", FALSE, 0, <<>>, "none", TRUE)
        ELSE IF currentSplit.mToken # bestSplit.mToken \/ currentSplit.vault # bestSplit.vault
        THEN IF TxThrows(in.txo)
             THEN Result(StoredRow(newPosition), ApplyTx(chain, bestSplit, in.txo), "seed",
                         FALSE, 0, <<bestSplit>>, in.txo, TRUE)
             ELSE Result(IF in.dbOk2 THEN StoredRow(updatedPosition) ELSE StoredRow(newPosition),
                         ApplyTx(chain, bestSplit, in.txo), "seed",
                         FALSE, 0, <<bestSplit>>, in.txo, ~in.dbOk2)
        ELSE Result(StoredRow(newPosition), chain, "seed", FALSE, 0, <<>>, "none", FALSE)

\* strategy-optimizer.ts lines 549-611: a row exists.
EvaluatePositionLegacy(existingPosition, chain, apy, in) ==
    LET apyImprovement == apy.bestAPY - existingPosition.apy
        bestSplit == determineBestSplitLegacy(apy.marketAPY, apy.vaultAPY)
    IN  IF apyImprovement >= minImprovementThreshold
        THEN IF existingPosition.split_mtoken = bestSplit.mToken
                /\ existingPosition.split_vault = bestSplit.vault
             THEN Result(IF in.dbOk THEN StoredRow([existingPosition EXCEPT !.apy = apy.bestAPY])
                         ELSE existingPosition,
                         chain, "steady", FALSE, 0, <<>>, "none", ~in.dbOk)
             ELSE IF TxThrows(in.txo)
                  THEN Result(existingPosition, ApplyTx(chain, bestSplit, in.txo), "steady",
                              FALSE, 0, <<bestSplit>>, in.txo, TRUE)
                  ELSE Result(IF in.dbOk
                              THEN StoredRow([existingPosition EXCEPT !.split_mtoken = bestSplit.mToken,
                                                                      !.split_vault = bestSplit.vault,
                                                                      !.apy = apy.bestAPY])
                              ELSE existingPosition,
                              ApplyTx(chain, bestSplit, in.txo), "steady",
                              FALSE, 0, <<bestSplit>>, in.txo, ~in.dbOk)
        ELSE Result(existingPosition, chain, "steady", FALSE, 0, <<>>, "none", FALSE)

\* strategy-optimizer.ts lines 491-615
processStrategyOptimizationLegacy ==
    /\ optPc = "run"
    /\ variant = 2
    /\ \E in \in OptimizerInputs :
        LET existingPosition == position
            r == IF ~in.getOk
                 THEN Result(existingPosition, chainSplit, "readError", FALSE, 0, <<>>, "none", TRUE)
                 ELSE IF ~existingPosition.exists
                 THEN SeedPositionLegacy(chainSplit, apyData, in)
                 ELSE EvaluatePositionLegacy(existingPosition, chainSplit, apyData, in)
        IN  FinishRun(r) /\ lastAttempt' = Attempt(r, in)

----------------------------------------------------------------------------
(* Reward compounding                                                      *)
(*                                                                         *)
(* Two pipelines process the rewards of a strategy, one reward after the   *)
(* other: processStrategies of cron.ts ("cron") and                        *)
(* processStrategyCompounding / claimRewards / createSwapOrder of part_000 *)
(* ("modular").  The model follows one reward from the moment the loop     *)
(* picks it up to the moment the loop leaves it, one action per external   *)
(* call, and records the external calls in `calls`.                        *)
(*                                                                         *)
(* Units.  Token amounts are counted in base units of a token with         *)
(* TokenDecimals decimals (18 in the code), oracle answers and USD values  *)
(* in units of 10^-PriceDecimals USD (8 decimals in the code); with        *)
(* PriceDecimals = 2 a USD unit is one cent.                               *)

TokenDecimals == 1

PriceDecimals == 2

\* BigInt(10n ** 18n) of calculateTokenPriceInUsd
TokenUnit == 10 ^ TokenDecimals

\* 10 ** 8 of calculateTokenPriceInUsd
PriceUnit == 10 ^ PriceDecimals

\* Claimable amounts and token balances: nothing, half a token, one, two.
AmountValues == {0, TokenUnit \div 2, TokenUnit, 2 * TokenUnit}

\* Answers of the price oracle (latestRoundData, int256): just under one
\* USD per token, one USD, and a negative answer.
PriceValues == {PriceUnit - 1, PriceUnit, -PriceUnit}

\* MIN_USD_VALUE_THRESHOLD: half a USD, one USD.
ThresholdValues == {PriceUnit \div 2, PriceUnit}

\* allowedSlippageInBps and compoundFee as the strategy may return them.
SlippageValues == {30, 12000}

CompoundFeeValues == {100, 500}

\* getExpectedOut and quoted buy amounts (base units of USDC).
ExpectedOutValues == {1999}

BuyAmountValues == {100, 2000}

\* Block timestamps (seconds).
BlockTimestamps == {1000}

\* BigInt division truncates toward zero.
BigIntDiv(a, b) == IF a >= 0 THEN a \div b ELSE -((-a) \div b)

\* Variation: the oracle answer is used with its sign.
calculateTokenPriceInUsd_Signed(amount, tokenPriceUsd) ==
    BigIntDiv(amount * tokenPriceUsd, TokenUnit)

\* cow-swap.ts lines 57-65: rewardsUsd, a bigint in oracle units.
calculateTokenPriceInUsd(amount, tokenPriceUsd) ==
    LET absolutePriceUsd == IF tokenPriceUsd < 0 THEN -tokenPriceUsd ELSE tokenPriceUsd
    IN  BigIntDiv(amount * absolutePriceUsd, TokenUnit)

\* cow-swap.ts line 68: (Number(rewardsUsd) / 10 ** 8).toFixed(8), the
\* decimal string as its integer part and its PriceDecimals digits.
rewardsUsdFormatted(rewardsUsd) ==
    [whole |-> rewardsUsd \div PriceUnit, digits |-> rewardsUsd % PriceUnit]

\* parseFloat of such a string, as a number of USD units.
parseFloat(formatted) == formatted.whole * PriceUnit + formatted.digits

\* Variation: the comparison is strict.
exceedsThreshold_Strict(usdValue, threshold) == usdValue > threshold

\* part_000 lines 125 and 184, cron.ts lines 553 and 604
exceedsThreshold(usdValue, threshold) == usdValue >= threshold

\* generate-appdata.ts lines 109-111
calculateFeeAmount(sellAmount, compoundFeeBps) == BigIntDiv(sellAmount * compoundFeeBps, 10000)

\* generateMamoAppData: the digest stands for the document it is computed
\* from, whose pre-hook transfers feeAmount from the strategy to FEE_RECIPIENT.
generateMamoAppData(feeAmount) == [transfer |-> feeAmount]

NoAppData == [transfer |-> 0]

NoOrder == [sellAmount |-> 0, buyAmount |-> 0, validTo |-> 0, appData |-> NoAppData, feeAmount |-> 0]

Order(sellAmount, buyAmount, validTo, appData) ==
    [sellAmount |-> sellAmount, buyAmount |-> buyAmount, validTo |-> validTo,
     appData |-> appData, feeAmount |-> 0]

NoQuote == [sellAmount |-> 0, feeAmount |-> 0, buyAmount |-> 0, validTo |-> 0]

\* keccak256 of a string, kept as the string under a tag.
Keccak(str) == <<"keccak256", str>>

\* constants.ts lines 72-73: keccak256("erc20") and keccak256("sell").
ERC20_BALANCE == Keccak("erc20")

KIND_SELL == Keccak("sell")

\* The strategy, its reward token and the base asset (constants.ts).
StrategyAddress == "strategy"

\* cron.ts line 515: the address the scheduled pipeline compares with.
MockedStrategy == "0x6a455900c2c3cfff11f195df388e08ac9eae1744"

\* Addresses the store can hold in strategy.strategy.
StrategyAddresses == {StrategyAddress, MockedStrategy}

RewardToken == "WELL"

USDC == "USDC"

\* Variation: the proceeds are quoted to another receiver than the sender.
QuoteRequest_ToOwner(strategy, sellToken, sellAmount, buyToken) ==
    [sellToken |-> sellToken, buyToken |-> buyToken, from |-> strategy, receiver |-> "owner",
     signingScheme |-> "eip1271", sellTokenBalance |-> "erc20", buyTokenBalance |-> "erc20",
     sellAmountBeforeFee |-> sellAmount, kind |-> "sell"]

\* cow-swap.ts lines 237-249: the OrderQuoteRequest of getSwapQuote.
QuoteRequest(strategy, sellToken, sellAmount, buyToken) ==
    [sellToken |-> sellToken, buyToken |-> buyToken, from |-> strategy, receiver |-> strategy,
     signingScheme |-> "eip1271", sellTokenBalance |-> "erc20", buyTokenBalance |-> "erc20",
     sellAmountBeforeFee |-> sellAmount, kind |-> "sell"]

NoQuoteRequest == QuoteRequest("none", "none", 0, "none")

\* cron.ts lines 710-723 and part_000 lines 203-238: the twelve fields of
\* the order handed to encodeOrderForSignature.  cron.ts takes the tokens
\* and the receiver from the quote, which repeats those of the request;
\* part_000 takes its own tokenAddress, USDC and strategyAddress.
OrderParams(order, request) ==
    [sellToken |-> request.sellToken, buyToken |-> request.buyToken,
     receiver |-> request.receiver, sellAmount |-> order.sellAmount,
     buyAmount |-> order.buyAmount, validTo |-> order.validTo, appData |-> order.appData,
     feeAmount |-> order.feeAmount, kind |-> "sell", partiallyFillable |-> FALSE,
     sellTokenBalance |-> "erc20", buyTokenBalance |-> "erc20"]

NoOrderParams == OrderParams(NoOrder, NoQuoteRequest)

\* cow-swap.ts line 110: hashOrder(domainData, params).  The digest is kept
\* as the struct it hashes: the fields of the order, with kind and the two
\* balance fields replaced by the keccak256 of their names.
hashOrder(params) ==
    [params EXCEPT !.kind = Keccak(@), !.sellTokenBalance = Keccak(@),
                   !.buyTokenBalance = Keccak(@)]

\* Variation: the tuple is encoded with the empty appData.
EncodedTuple_NoAppData(params) ==
    [params EXCEPT !.kind = KIND_SELL, !.partiallyFillable = FALSE,
                   !.sellTokenBalance = ERC20_BALANCE, !.buyTokenBalance = ERC20_BALANCE,
                   !.appData = NoAppData]

\* cow-swap.ts lines 114-151: the tuple passed as the signature takes eight
\* fields from the parameters and fixes kind, partiallyFillable and the two
\* balance fields.
EncodedTuple(params) ==
    [params EXCEPT !.kind = KIND_SELL, !.partiallyFillable = FALSE,
                   !.sellTokenBalance = ERC20_BALANCE, !.buyTokenBalance = ERC20_BALANCE]

\* cron.ts lines 741-757, part_000 lines 252-256: the OrderCreation sent to
\* the venue, with its from field.
SentOrder(params, strategy) ==
    [order |-> params, from |-> strategy, signingScheme |-> "eip1271",
     signature |-> EncodedTuple(params)]

NoSentOrder == [order |-> NoOrderParams, from |-> "none", signingScheme |-> "none",
                signature |-> NoOrderParams]

\* Network fees the venue may quote for selling b: none, half of b, all but
\* one base unit.
QuoteFees(b) == {0, b \div 2, b - 1}

\* Answers of getQuote for sellAmountBeforeFee = b >= 1: the quoted sell
\* amount is b less the quoted fee and is at least one base unit (the venue
\* rejects a sell amount that does not cover the fee); the quote is valid
\* for half an hour.
Quotes(b, now) ==
    {[sellAmount |-> b - f, feeAmount |-> f, buyAmount |-> q, validTo |-> now + 1800] :
        f \in QuoteFees(b), q \in BuyAmountValues}

\* Outcomes of simulateContract(isValidSignature):
\*   magic           returns MAGIC_VALUE
\*   otherValue      returns another bytes4
\*   emptyResult     returns no result
\*   staleHeartbeat  reverts, 'Price feed update time exceeds heartbeat'
\*   staleMaxTime    reverts, 'Price feed update time exceeds maximum valid time'
\*   revertOther     reverts with another reason
\*   nullData        fails with "Cannot read properties of null (reading 'data')"
SignatureOutcomes ==
    {"magic", "otherValue", "emptyResult", "staleHeartbeat", "staleMaxTime", "revertOther", "nullData"}

\* Variation: every returned value counts as valid.
IsValidResult_AnyReturn(sig) ==
    sig \in {"magic", "otherValue", "staleHeartbeat", "staleMaxTime"}

\* Variation: a revert on a stale price feed is not accepted.
IsValidResult_NoStaleFallback(sig) == sig = "magic"

\* cow-swap.ts lines 154-220: isValid of encodeOrderForSignature.
IsValidResult(sig) ==
    IF sig \in {"magic", "otherValue"} THEN sig = "magic"
    ELSE IF sig = "emptyResult" THEN FALSE
    ELSE sig \in {"staleHeartbeat", "staleMaxTime"}

\* Variation: the guard is strict, a fee equal to the sell amount passes.
FeeExceedsSell_Strict(quote) == quote.feeAmount > quote.sellAmount

\* cron.ts line 674
FeeExceedsSell(quote) == quote.feeAmount >= quote.sellAmount

\* Variation: the claimable amount of the reward is offered for swap.
SwapAmount_Claimable(r, tokenBalance) == r.supplyRewardsAmount

\* part_000 line 336 (cron.ts lines 595 and 606): the amount valued and
\* offered for swap is the balance read after the claim.
SwapAmount(r, tokenBalance) == tokenBalance

Rewards == [hasTokenPriceFeed : BOOLEAN, supplyRewardsAmount : AmountValues]

NoReward == [hasTokenPriceFeed |-> FALSE, supplyRewardsAmount |-> 0]

\* part_000 lines 80-88: fetchStrategyRewards returns what the view
\* returned, for every address.
fetchStrategyRewards(address, viewed) == viewed

\* cron.ts lines 508-522: the rewards the view returned, replaced for one
\* address by one tuple of 10^18 WELL.
getUserRewards(address, viewed) ==
    IF address = MockedStrategy
    THEN [hasTokenPriceFeed |-> TRUE, supplyRewardsAmount |-> TokenUnit]
    ELSE viewed

Call(op, amount, order) == [op |-> op, amount |-> amount, order |-> order]

NoLoc ==
    [valued |-> FALSE, rewardAnswer |-> 0, rewardsUsdValue |-> 0, claimOutcome |-> "none",
     tokenBalance |-> 0, swapValued |-> FALSE, balanceAnswer |-> 0, balanceUsdValue |-> 0,
     quoted |-> FALSE, quote |-> NoQuote, slippageRead |-> "none", allowedSlippageInBps |-> 0,
     expectedOutRead |-> "none", expectedOut |-> 0, minOut |-> 0,
     compoundFeeRead |-> "none", compoundFeeBps |-> 0, order |-> NoOrder,
     encodeSlippageRead |-> "none", encodeSlippage |-> 0,
     sig |-> "none", isValid |-> FALSE, end |-> "none",
     quoteRequest |-> NoQuoteRequest, orderDigest |-> NoOrderParams,
     signature |-> NoOrderParams, orderCreation |-> NoSentOrder]

InitCompounder ==
    /\ pipeline \in {"cron", "modular"}
    /\ minUsdValueThreshold \in ThresholdValues
    /\ strategyAddress \in StrategyAddresses
    /\ returned = NoReward
    /\ cpc = "idle"
    /\ reward = NoReward
    /\ loc = NoLoc
    /\ calls = <<>>

\* The loop leaves the reward / goes on to the next await.
End(l, how) == cpc' = "idle" /\ loc' = [l EXCEPT !.end = how]

Goto(l, pc) == cpc' = pc /\ loc' = l


HasCall(op) == \E i \in DOMAIN calls : calls[i].op = op

\* part_000 lines 311-349: the loop of processStrategyCompounding takes the
\* next reward and processes it only if something is claimable and the
\* token has a price feed.
processStrategyCompounding ==
    /\ pipeline = "modular"
    /\ cpc = "idle"
    /\ \E viewed \in Rewards :
        LET r == fetchStrategyRewards(strategyAddress, viewed)
            hasRewards == r.supplyRewardsAmount > 0
            hasTokenPriceFeed == r.hasTokenPriceFeed
        IN  /\ returned' = viewed
            /\ reward' = r
            /\ calls' = <<>>
            /\ IF hasRewards /\ hasTokenPriceFeed
               THEN Goto(NoLoc, "claimRewards")
               ELSE End(NoLoc, "skipped")
    /\ UNCHANGED <<pipeline, minUsdValueThreshold, strategyAddress, optVars, schedVars, batchVars, procVars, workerVars>>

\* cron.ts lines 528-538: the loop of processStrategies takes the next
\* reward; the test `hasRewards && hasTokenPriceFeed` is commented out.
processStrategies ==
    /\ pipeline = "cron"
    /\ cpc = "idle"
    /\ \E viewed \in Rewards :
        /\ returned' = viewed
        /\ reward' = getUserRewards(strategyAddress, viewed)
        /\ calls' = <<>>
        /\ Goto(NoLoc, "claimRewards")
    /\ UNCHANGED <<pipeline, minUsdValueThreshold, strategyAddress, optVars, schedVars, batchVars, procVars, workerVars>>

\* part_000 lines 111-127 (cron.ts lines 540-555): value the claimable
\* amount and compare it with the threshold.  calculateTokenPriceInUsd
\* throws before any read when the token has no price feed.
claimRewards ==
    /\ cpc = "claimRewards"
    /\ IF ~reward.hasTokenPriceFeed
       THEN End(loc, "error") /\ UNCHANGED calls
       ELSE /\ calls' = Append(calls, Call("latestRoundData", reward.supplyRewardsAmount, NoOrder))
            /\ \/ End(loc, "error")
               \/ \E answer \in PriceValues :
                    LET formatted == rewardsUsdFormatted(
                                        calculateTokenPriceInUsd(reward.supplyRewardsAmount, answer))
                        rewardsUsdValue == parseFloat(formatted)
                        l == [loc EXCEPT !.valued = TRUE, !.rewardAnswer = answer,
                                         !.rewardsUsdValue = rewardsUsdValue]
                    IN  IF exceedsThreshold(rewardsUsdValue, minUsdValueThreshold)
                        THEN Goto(l, "claimReward")
                        ELSE Goto(l, "balanceOf")
    /\ UNCHANGED <<pipeline, minUsdValueThreshold, strategyAddress, returned, reward, optVars, schedVars, batchVars, procVars, workerVars>>

\* part_000 lines 138-151 (cron.ts lines 566-578): the claim transaction and
\* the wait for its receipt; either may throw into the catch of the loop.
claimReward ==
    /\ cpc = "claimReward"
    /\ \E txo \in TxOutcomes :
        LET l == [loc EXCEPT !.claimOutcome = txo]
        IN  /\ calls' = Append(calls, Call("claimReward", 0, NoOrder))
            /\ IF TxThrows(txo) THEN End(l, "error") ELSE Goto(l, "balanceOf")
    /\ UNCHANGED <<pipeline, minUsdValueThreshold, strategyAddress, returned, reward, optVars, schedVars, batchVars, procVars, workerVars>>

\* part_000 lines 325-339 (cron.ts lines 584-593)
balanceOf ==
    /\ cpc = "balanceOf"
    /\ calls' = Append(calls, Call("balanceOf", 0, NoOrder))
    /\ \/ End(loc, "error")
       \/ \E tokenBalance \in AmountValues :
            LET l == [loc EXCEPT !.tokenBalance = tokenBalance]
            IN  IF tokenBalance > 0 THEN Goto(l, "createSwapOrder") ELSE End(l, "noBalance")
    /\ UNCHANGED <<pipeline, minUsdValueThreshold, strategyAddress, returned, reward, optVars, schedVars, batchVars, procVars, workerVars>>

\* part_000 lines 177-184 (cron.ts lines 595-604): value the balance and
\* compare it with the threshold.
createSwapOrder ==
    /\ cpc = "createSwapOrder"
    /\ calls' = Append(calls, Call("latestRoundData", SwapAmount(reward, loc.tokenBalance), NoOrder))
    /\ \/ End(loc, "error")
       \/ \E answer \in PriceValues :
            LET formatted == rewardsUsdFormatted(
                                calculateTokenPriceInUsd(SwapAmount(reward, loc.tokenBalance), answer))
                balanceUsdValue == parseFloat(formatted)
                l == [loc EXCEPT !.swapValued = TRUE, !.balanceAnswer = answer,
                                 !.balanceUsdValue = balanceUsdValue]
            IN  IF exceedsThreshold(balanceUsdValue, minUsdValueThreshold)
                THEN Goto(l, "getSwapQuote")
                ELSE End(l, "belowThreshold")
    /\ UNCHANGED <<pipeline, minUsdValueThreshold, strategyAddress, returned, reward, optVars, schedVars, batchVars, procVars, workerVars>>

\* cow-swap.ts line 92: the slippage allowance used when the strategy's
\* cannot be read, in basis points.
defaultSlippageInBps == 30

\* cron.ts lines 644-648: the quoted buy amount less the safety margin of
\* 200 bps, used when the expected-output read reverts on a stale price feed.
staleFeedExpectedOut(quoteBuyAmount) ==
    LET safetyMarginBps == 200
    IN  BigIntDiv(quoteBuyAmount * (10000 - safetyMarginBps), 10000)

\* cron.ts line 659: the minimum output after slippage.
minOutAfterSlippage(expectedOut, slippageInBps) ==
    BigIntDiv(expectedOut * (10000 - slippageInBps), 10000)

\* part_000 lines 195-222: the order of the modular pipeline, built from the
\* quote with the fixed fee of 500 bps.
OrderFromQuote(quote) ==
    LET compoundFee == 500
        feeAmount == BigIntDiv(quote.sellAmount * compoundFee, 10000)
        appData == generateMamoAppData(feeAmount)
    IN  Order(quote.sellAmount, quote.buyAmount, quote.validTo, appData)

\* part_000 lines 187-244 (cron.ts line 606): ask the venue for a quote.
\* The modular pipeline builds its order from the answer at once; a failure
\* ends the reward in both pipelines.
getSwapQuote ==
    /\ cpc = "getSwapQuote"
    /\ calls' = Append(calls, Call("getQuote", SwapAmount(reward, loc.tokenBalance), NoOrder))
    /\ \/ End([loc EXCEPT !.quoteRequest = QuoteRequest(strategyAddress, RewardToken,
                                     SwapAmount(reward, loc.tokenBalance), USDC)],
              "quoteFailed")
       \/ \E now \in BlockTimestamps :
          \E quote \in Quotes(SwapAmount(reward, loc.tokenBalance), now) :
            LET l == [loc EXCEPT !.quoted = TRUE, !.quote = quote,
                                 !.quoteRequest = QuoteRequest(strategyAddress, RewardToken,
                                     SwapAmount(reward, loc.tokenBalance), USDC)]
            IN  IF pipeline = "modular"
                THEN Goto([l EXCEPT !.order = OrderFromQuote(quote)], "encodeOrderForSignature")
                ELSE Goto(l, "allowedSlippageInBps")
    /\ UNCHANGED <<pipeline, minUsdValueThreshold, strategyAddress, returned, reward, optVars, schedVars, batchVars, procVars, workerVars>>

\* cron.ts lines 608-622: read the strategy's slippage allowance; a failed
\* read leaves the reward (continue).
allowedSlippageInBps ==
    /\ cpc = "allowedSlippageInBps"
    /\ calls' = Append(calls, Call("allowedSlippageInBps", 0, NoOrder))
    /\ \/ End([loc EXCEPT !.slippageRead = "failed"], "slippageFailed")
       \/ \E bps \in SlippageValues :
            Goto([loc EXCEPT !.slippageRead = "ok", !.allowedSlippageInBps = bps],
                 "getExpectedOut")
    /\ UNCHANGED <<pipeline, minUsdValueThreshold, strategyAddress, returned, reward, optVars, schedVars, batchVars, procVars, workerVars>>

\* cron.ts lines 624-662: the expected output, read from the swap checker
\* or, when the read reverts on a stale price feed, taken from the quote
\* less 2%; then the minimum output after slippage.
getExpectedOut ==
    /\ cpc = "getExpectedOut"
    /\ calls' = Append(calls, Call("getExpectedOut", loc.quote.sellAmount, NoOrder))
    /\ \/ End([loc EXCEPT !.expectedOutRead = "failed"], "expectedOutFailed")
       \/ \E how \in {"ok", "stale"} :
          \E expectedOut \in IF how = "ok" THEN ExpectedOutValues
                                           ELSE {staleFeedExpectedOut(loc.quote.buyAmount)} :
            LET minOut == minOutAfterSlippage(expectedOut, loc.allowedSlippageInBps)
            IN  Goto([loc EXCEPT !.expectedOutRead = how, !.expectedOut = expectedOut,
                                 !.minOut = minOut], "getBlock")
    /\ UNCHANGED <<pipeline, minUsdValueThreshold, strategyAddress, returned, reward, optVars, schedVars, batchVars, procVars, workerVars>>

\* cron.ts lines 664-680: the block timestamp, then the guard on the quoted
\* fee; a fee that reaches the quoted sell amount leaves the reward.
getBlock ==
    /\ cpc = "getBlock"
    /\ calls' = Append(calls, Call("getBlock", 0, NoOrder))
    /\ \/ End(loc, "error")
       \/ \E blockTimestamp \in BlockTimestamps :
            LET validTo == blockTimestamp + 1800
                l == [loc EXCEPT !.order = [NoOrder EXCEPT !.validTo = validTo]]
            IN  IF FeeExceedsSell(loc.quote)
                THEN End(l, "feeExceedsSell")
                ELSE Goto(l, "compoundFee")
    /\ UNCHANGED <<pipeline, minUsdValueThreshold, strategyAddress, returned, reward, optVars, schedVars, batchVars, procVars, workerVars>>

\* cron.ts lines 680-723: the sell amount less the quoted fee, the protocol
\* fee read from the strategy, the appData document and the order.
compoundFee ==
    /\ cpc = "compoundFee"
    /\ calls' = Append(calls, Call("compoundFee", 0, NoOrder))
    /\ \/ End([loc EXCEPT !.compoundFeeRead = "failed"], "error")
       \/ \E compoundFeeBps \in CompoundFeeValues :
            LET sellAmount == loc.quote.sellAmount - loc.quote.feeAmount
                feeAmount == calculateFeeAmount(sellAmount, compoundFeeBps)
                appData == generateMamoAppData(feeAmount)
                orderParams == Order(sellAmount, loc.minOut, loc.order.validTo, appData)
            IN  Goto([loc EXCEPT !.compoundFeeRead = "ok", !.compoundFeeBps = compoundFeeBps,
                                 !.order = orderParams], "encodeOrderForSignature")
    /\ UNCHANGED <<pipeline, minUsdValueThreshold, strategyAddress, returned, reward, optVars, schedVars, batchVars, procVars, workerVars>>

\* cow-swap.ts lines 84-221 (cron.ts lines 313-450), called at part_000
\* line 246 and cron.ts line 728: read the strategy's slippage allowance,
\* keeping the default when the read fails (lines 90-105), then simulate
\* isValidSignature on the order.  The slippage read does not enter the
\* digest, the encoded order or the result.
encodeOrderForSignature ==
    /\ cpc = "encodeOrderForSignature"
    /\ calls' = calls \o <<Call("allowedSlippageInBps", 0, NoOrder),
                           Call("isValidSignature", 0, loc.order)>>
    /\ \E read \in {"ok", "failed"} :
       \E bps \in IF read = "ok" THEN SlippageValues ELSE {defaultSlippageInBps} :
       \E sig \in SignatureOutcomes :
        LET isValid == IsValidResult(sig)
            params == OrderParams(loc.order, loc.quoteRequest)
            l == [loc EXCEPT !.encodeSlippageRead = read, !.encodeSlippage = bps,
                             !.sig = sig, !.isValid = isValid,
                             !.orderDigest = hashOrder(params),
                             !.signature = EncodedTuple(params)]
        IN  IF isValid THEN Goto(l, "sendOrder") ELSE End(l, "invalid")
    /\ UNCHANGED <<pipeline, minUsdValueThreshold, strategyAddress, returned, reward, optVars, schedVars, batchVars, procVars, workerVars>>

\* part_000 lines 252-256, cron.ts lines 741-757: the OrderCreation sent to
\* the venue repeats the fields of the validated order.
OrderCreation(order) ==
    [sellAmount |-> order.sellAmount, buyAmount |-> order.buyAmount,
     validTo |-> order.validTo, appData |-> order.appData, feeAmount |-> order.feeAmount]

\* part_000 lines 258-267, cron.ts lines 761-767: a rejected order is logged.
sendOrder ==
    /\ cpc = "sendOrder"
    /\ calls' = Append(calls, Call("sendOrder", 0, OrderCreation(loc.order)))
    /\ LET l == [loc EXCEPT !.orderCreation =
                      SentOrder(OrderParams(loc.order, loc.quoteRequest), strategyAddress)]
       IN  \/ End(l, "submitted")
           \/ End(l, "sendFailed")
    /\ UNCHANGED <<pipeline, minUsdValueThreshold, strategyAddress, returned, reward, optVars, schedVars, batchVars, procVars, workerVars>>

NextCompound ==
    \/ processStrategyCompounding
    \/ processStrategies
    \/ claimRewards
    \/ claimReward
    \/ balanceOf
    \/ createSwapOrder
    \/ getSwapQuote
    \/ allowedSlippageInBps
    \/ getExpectedOut
    \/ getBlock
    \/ compoundFee
    \/ encodeOrderForSignature
    \/ sendOrder

----------------------------------------------------------------------------
(* The task scheduler of the server: part_002 lines 780-854 and 1093-1120  *)
(* (part_004 lines 40-115 and 193-201 hold the same scheduler with one     *)
(* task).  taskScheduler is called once at start-up and re-arms itself     *)
(* with setTimeout after its loop; inside the loop it awaits task.fn().    *)
(* Time is counted in seconds; the interval of five minutes is scaled down.*)
(* Instead of the clock and each lastRun the model keeps their difference, *)
(* now - lastRun, which is all the scheduler looks at, and stops counting  *)
(* it at the interval.                                                     *)

\* part_002 lines 1094-1112: the three tasks, in order of registration
\* (Object.entries iterates the registry in insertion order).
TaskFns == <<"processRewards", "optimizeStrategyPositions", "processIdleStrategies">>

TaskIds == 1..Len(TaskFns)

\* part_002 lines 1095, 1102, 1109: the interval of every task (300 s in
\* the code).
interval == 3

\* The longest run of a task that is explored, in seconds.
MaxElapsed == 4

\* part_002 lines 811-817: a task as registered by periodic; sinceLastRun
\* -1 stands for lastRun undefined.
RegisteredTask == [sinceLastRun |-> -1, running |-> FALSE]

\* part_002 line 835: first time, or the interval has elapsed.
IsDue(task) == task.sinceLastRun = -1 \/ task.sinceLastRun >= interval

\* The registry after elapsed seconds have passed.
Elapse(ts, elapsed) ==
    [id \in DOMAIN ts |->
        IF ts[id].sinceLastRun = -1 \/ ts[id].sinceLastRun + elapsed >= interval
        THEN [ts[id] EXCEPT !.sinceLastRun = IF @ = -1 THEN -1 ELSE interval]
        ELSE [ts[id] EXCEPT !.sinceLastRun = @ + elapsed]]

\* Variation: the flag is left unset when a task starts.
RunningOnStart_Unset == FALSE

\* part_002 line 836: task.running = true before the task is called.
RunningOnStart == TRUE

\* Variation: the flag is left set when the run has ended.
RunningAfterRun_Kept == TRUE

\* part_002 lines 846-848: finally { task.running = false }.
RunningAfterRun == FALSE

\* Variation: the task is called without being awaited.
AwaitsTask_FireAndForget == FALSE

\* part_002 line 842: the scheduler awaits task.fn() inside its loop.
AwaitsTask == TRUE

\* part_002 lines 867-872, 928-929, 992-993: the environment variables a
\* task reads with ensureString.
EnvNames == {"BASE_RPC_URL", "PRIVATE_KEY", "MIN_USD_VALUE_THRESHOLD"}

RequiredEnv(fn) ==
    IF fn = "processRewards" THEN EnvNames ELSE {"BASE_RPC_URL", "PRIVATE_KEY"}

\* part_002 lines 797-802 with the try/catch of the task (865/910-914,
\* 926/974-978, 990/1060-1064): ensureString throws on a value that is not
\* set, the catch of the task logs it and the task returns.
TaskOutcome(fn) == IF RequiredEnv(fn) \subseteq env THEN "ran" ELSE "configMissing"

InitScheduler ==
    /\ tasks = [id \in TaskIds |-> RegisteredTask]
    /\ schedPc = "loop"
    /\ schedIdx = 1
    /\ instances = [id \in TaskIds |-> 0]
    /\ outcomes = [id \in TaskIds |-> "none"]

\* part_002 lines 826-842: one iteration of the for loop.  A running task
\* is skipped; a due task is marked running, stamped and called.
taskScheduler ==
    /\ schedPc = "loop"
    /\ schedIdx \in TaskIds
    /\ LET id == schedIdx
           task == tasks[id]
       IN  IF ~task.running /\ IsDue(task)
           THEN /\ tasks' = [tasks EXCEPT ![id] = [sinceLastRun |-> 0, running |-> RunningOnStart]]
                /\ instances' = [instances EXCEPT ![id] = @ + 1]
                /\ outcomes' = [outcomes EXCEPT ![id] = TaskOutcome(TaskFns[id])]
                /\ IF AwaitsTask
                   THEN schedPc' = "await" /\ UNCHANGED schedIdx
                   ELSE schedIdx' = schedIdx + 1 /\ UNCHANGED schedPc
           ELSE /\ schedIdx' = schedIdx + 1
                /\ UNCHANGED <<tasks, instances, outcomes, schedPc>>
    /\ UNCHANGED <<optVars, compVars, batchVars, procVars, workerVars>>

\* part_002 lines 842-848: task.fn() settles, by returning or by throwing,
\* after some time; finally clears the flag.  The awaiting loop goes on
\* with the next task.
taskSettles ==
    /\ schedPc # "exited"
    /\ UNCHANGED outcomes
    /\ \E id \in TaskIds : \E elapsed \in 0..MaxElapsed :
        /\ instances[id] > 0
        /\ instances' = [instances EXCEPT ![id] = @ - 1]
        /\ tasks' = [Elapse(tasks, elapsed) EXCEPT ![id].running = RunningAfterRun]
        /\ IF schedPc = "await" /\ schedIdx = id
           THEN schedPc' = "loop" /\ schedIdx' = schedIdx + 1
           ELSE UNCHANGED <<schedPc, schedIdx>>
    /\ UNCHANGED <<optVars, compVars, batchVars, procVars, workerVars>>

\* part_002 line 853: after the loop the next check is armed one second
\* ahead.
setTimeout ==
    /\ schedPc = "loop"
    /\ schedIdx \notin TaskIds
    /\ schedPc' = "timeout"
    /\ UNCHANGED <<tasks, schedIdx, instances, outcomes, optVars, compVars, batchVars, procVars, workerVars>>

\* The timer fires, one second later or more, and taskScheduler starts its
\* loop again.
timerFires ==
    /\ schedPc = "timeout"
    /\ \E late \in 0..1 : tasks' = Elapse(tasks, 1 + late)
    /\ schedPc' = "loop"
    /\ schedIdx' = 1
    /\ UNCHANGED <<instances, outcomes, optVars, compVars, batchVars, procVars, workerVars>>

NextScheduler ==
    \/ taskScheduler
    \/ taskSettles
    \/ setTimeout
    \/ timerFires

----------------------------------------------------------------------------
(* Startup of the server, part_002 lines 1116-1132.                        *)

\* Variation: the scheduler is started when the module is loaded, as in the
\* server without a store (part_004 line 201).
AwaitsStore_StartsAtLoad == FALSE

\* part_002 lines 1117-1120: taskScheduler() is called in the then-callback
\* of initializeDatabase().
AwaitsStore == TRUE

\* The process after its module was loaded: the tasks are registered
\* (part_002 lines 1094-1112), initializeDatabase() is pending and the
\* environment is whatever the deployment set.
InitProcess ==
    /\ env \in SUBSET EnvNames
    /\ store = "pending"
    /\ tasks = [id \in TaskIds |-> RegisteredTask]
    /\ schedPc = IF AwaitsStore THEN "startup" ELSE "loop"
    /\ schedIdx = 1
    /\ instances = [id \in TaskIds |-> 0]
    /\ outcomes = [id \in TaskIds |-> "none"]

\* database.ts lines 37-70 with part_002 lines 1116-1132: the promise of
\* initializeDatabase settles.  Fulfilled, the scheduler is started;
\* rejected (the error is rethrown at database.ts line 64), the process
\* exits with code 1.
initializeDatabase ==
    /\ store = "pending"
    /\ \/ /\ store' = "ready"
          /\ schedPc' = IF schedPc = "startup" THEN "loop" ELSE schedPc
       \/ /\ store' = "failed"
          /\ schedPc' = "exited"
    /\ UNCHANGED <<env, tasks, schedIdx, instances, outcomes, optVars, compVars, batchVars,
                   workerVars>>

NextStartup ==
    \/ initializeDatabase
    \/ taskScheduler
    \/ taskSettles
    \/ setTimeout
    \/ timerFires

----------------------------------------------------------------------------
(* One run of a listing task: processRewards (part_002 lines 859-915, with *)
(* compoundStrategies and processStrategyCompounding of part_000 lines     *)
(* 295-382), optimizeStrategyPositions (part_002 lines 920-979) and        *)
(* processIdleStrategies (part_002 lines 984-1065).  What a strategy or a  *)
(* reward computes is left to the two specifications above; here only the  *)
(* control flow, the failures and the write transactions are kept.         *)

\* Pages fetched in a run that is explored.
MaxPages == 2

\* Strategies on a page.
MaxPageLen == 2

\* Rewards of a strategy.
MaxRewards == 2

NoFailure == [kind |-> "none", page |-> 0, strategy |-> 0, reward |-> 0]

pageNo == Len(pageLens)

pageLen == IF pageNo = 0 THEN 0 ELSE pageLens[pageNo]

\* Variation: the loop stops after the first page.
ContinuePaging_Never(cursor) == FALSE

\* part_002 lines 904, 968, 1054: while (nextCursor !== null).
ContinuePaging(cursor) == cursor # 0

\* Variation: a failing reward is not caught in the loop over the rewards.
CaughtPerReward_Propagates == FALSE

\* part_000 lines 320-342: the try/catch around the processing of one reward.
CaughtPerReward == TRUE

\* Variation: a failure of the store leaves processStrategyOptimization.
CaughtPerStrategy_Propagates == FALSE

\* strategy-optimizer.ts lines 168 and 304-306: the try/catch around the
\* whole of processStrategyOptimization, the reads and writes of the store
\* (database.ts lines 77-131, which log and rethrow) included.
CaughtPerStrategy == TRUE

\* database.ts lines 77-90 (getPosition), 96-110 (insertPosition) and
\* 116-131 (updatePosition).
StoreFailures == {"storeReadFailed", "storeWriteFailed"}

\* Variation: the receipt of a write transaction is not awaited.
AwaitsReceipt_FireAndForget == FALSE

\* part_000 line 146, strategy-optimizer.ts line 89, part_002 line 1040:
\* await waitForTransactionReceipt after every write.
AwaitsReceipt == TRUE

\* Variation: a failed reading of the yield feed is swallowed and the run
\* goes on to the pages.
AfterFeedFailure_GoesOn == "fetch"

\* strategy-optimizer.ts lines 357-360 with part_002 lines 938 and 974-978:
\* getAPYData rethrows, the call is inside the try of the task and outside
\* its paging loop, so the throw ends the run in the catch of the task.
AfterFeedFailure == "aborted"

\* part_002 lines 877, 938, 1012: the first await of a run; the optimizer
\* reads the yield feed before it asks for a page.
InitBatch ==
    /\ job \in {TaskFns[i] : i \in DOMAIN TaskFns}
    /\ bpc = IF job = "optimizeStrategyPositions" THEN "apy" ELSE "fetch"
    /\ pageLens = <<>>
    /\ nextCursor = 0
    /\ strategyIdx = 0
    /\ rewardsLen = 0
    /\ rewardIdx = 0
    /\ processed = <<>>
    /\ failure = NoFailure
    /\ inFlight = 0
    /\ writes = 0

\* The first failure caught in the run is kept.
Caught(kind, s, r) ==
    IF failure = NoFailure
    THEN [kind |-> kind, page |-> pageNo, strategy |-> s, reward |-> r]
    ELSE failure

\* A write transaction was sent: with the receipt awaited the run stands
\* still until the wait settles.
Sent(resume) ==
    /\ inFlight' = inFlight + 1
    /\ writes' = writes + 1
    /\ bpc' = IF AwaitsReceipt THEN "wait" ELSE resume

\* part_002 line 938 with strategy-optimizer.ts lines 313-361: the yield
\* feed is read once per run.  A response that is not ok, a response
\* without markets.MOONWELL_USDC or vaults.mwUSDC and one without
\* totalSupplyApr or totalApy all throw (lines 322, 332, 340).
getAPYDataOfRun ==
    /\ job = "optimizeStrategyPositions"
    /\ bpc = "apy"
    /\ \/ /\ bpc' = "fetch"
          /\ UNCHANGED failure
       \/ /\ bpc' = AfterFeedFailure
          /\ failure' = Caught("feedFailed", 0, 0)
    /\ UNCHANGED <<job, pageLens, nextCursor, strategyIdx, rewardsLen, rewardIdx, processed,
                   inFlight, writes, optVars, compVars, schedVars, procVars, workerVars>>

\* part_002 lines 879-891, 945-957, 1014-1026: fetch the next page of the
\* indexer.  A response that is not ok throws to the catch of the task,
\* which ends the run.
fetchStrategies ==
    /\ bpc = "fetch"
    /\ pageNo < MaxPages
    /\ \/ /\ bpc' = "aborted"
          /\ UNCHANGED <<pageLens, nextCursor, strategyIdx>>
       \/ \E len \in 0..MaxPageLen : \E cursor \in {0, pageNo + 2} :
            /\ pageLens' = Append(pageLens, len)
            /\ nextCursor' = cursor
            /\ strategyIdx' = 0
            /\ bpc' = "strategies"
    /\ UNCHANGED <<job, rewardsLen, rewardIdx, processed, failure, inFlight, writes,
                   optVars, compVars, schedVars, procVars, workerVars>>

\* part_000 lines 379-381 and 303-309: the next strategy of the page is
\* handed to processStrategyCompounding, which fetches its rewards; a failed
\* fetch is caught at lines 351-353 and the loop goes on.
compoundStrategies ==
    /\ job = "processRewards"
    /\ bpc = "strategies"
    /\ strategyIdx < pageLen
    /\ strategyIdx' = strategyIdx + 1
    /\ processed' = Append(processed, <<pageNo, strategyIdx + 1>>)
    /\ rewardIdx' = 0
    /\ \/ /\ failure' = Caught("rpcReadError", strategyIdx + 1, 0)
          /\ rewardsLen' = 0
          /\ bpc' = "strategies"
       \/ \E n \in 0..MaxRewards :
            /\ rewardsLen' = n
            /\ bpc' = "rewards"
            /\ UNCHANGED failure
    /\ UNCHANGED <<job, pageLens, nextCursor, inFlight, writes, optVars, compVars, schedVars, procVars, workerVars>>

\* Where a failure of a reward lands: in the catch of the reward, after
\* which the next reward follows, or else in the catch of the strategy.
AfterRewardFailure == IF CaughtPerReward THEN "rewards" ELSE "strategies"

\* part_000 lines 311-349 and 102-151: the next reward of the strategy.  It
\* is skipped by the gate, or valued; when worth the threshold the claim
\* transaction is sent.  After the last reward the strategy is left.
processReward ==
    /\ job = "processRewards"
    /\ bpc = "rewards"
    /\ IF rewardIdx < rewardsLen
       THEN /\ rewardIdx' = rewardIdx + 1
            /\ \/ /\ bpc' = "rewards"
                  /\ UNCHANGED <<failure, inFlight, writes>>
               \/ /\ bpc' = "swap"
                  /\ UNCHANGED <<failure, inFlight, writes>>
               \/ \E kind \in {"rpcReadError", "claimFailed"} :
                    /\ failure' = Caught(kind, strategyIdx, rewardIdx + 1)
                    /\ bpc' = AfterRewardFailure
                    /\ UNCHANGED <<inFlight, writes>>
               \/ /\ Sent("swap")
                  /\ UNCHANGED failure
       ELSE /\ bpc' = "strategies"
            /\ UNCHANGED <<rewardIdx, failure, inFlight, writes>>
    /\ UNCHANGED <<job, pageLens, nextCursor, strategyIdx, rewardsLen, processed,
                   optVars, compVars, schedVars, procVars, workerVars>>

\* part_000 lines 323-336 and 161-290: the balance read and the swap of the
\* balance, with its failures.
createSwapOrderOutcome ==
    /\ job = "processRewards"
    /\ bpc = "swap"
    /\ \/ /\ bpc' = "rewards"
          /\ UNCHANGED failure
       \/ \E kind \in {"rpcReadError", "quoteFailed", "orderRejected"} :
            /\ failure' = Caught(kind, strategyIdx, rewardIdx)
            /\ bpc' = AfterRewardFailure
    /\ UNCHANGED <<job, pageLens, nextCursor, strategyIdx, rewardsLen, rewardIdx, processed,
                   inFlight, writes, optVars, compVars, schedVars, procVars, workerVars>>

\* Where a failure of the store lands: in the catch of the strategy, after
\* which the next strategy follows, or else in the catch of the task
\* (part_002 lines 974-978), which ends the run.
AfterStoreFailure == IF CaughtPerStrategy THEN "strategies" ELSE "aborted"

\* part_002 lines 960-962 with strategy-optimizer.ts lines 161-307: the next
\* strategy of the page is optimized; whatever fails is caught at lines
\* 304-306.  A rebalance sends updatePosition.
optimizeStrategyPositions ==
    /\ job = "optimizeStrategyPositions"
    /\ bpc = "strategies"
    /\ strategyIdx < pageLen
    /\ strategyIdx' = strategyIdx + 1
    /\ processed' = Append(processed, <<pageNo, strategyIdx + 1>>)
    /\ \/ /\ bpc' = "strategies"
          /\ UNCHANGED <<failure, inFlight, writes>>
       \/ \E kind \in {"rpcReadError", "writeFailed"} :
            /\ failure' = Caught(kind, strategyIdx + 1, 0)
            /\ bpc' = "strategies"
            /\ UNCHANGED <<inFlight, writes>>
       \/ \E kind \in StoreFailures :
            /\ failure' = Caught(kind, strategyIdx + 1, 0)
            /\ bpc' = AfterStoreFailure
            /\ UNCHANGED <<inFlight, writes>>
       \/ /\ Sent("strategies")
          /\ UNCHANGED failure
    /\ UNCHANGED <<job, pageLens, nextCursor, rewardsLen, rewardIdx, optVars, compVars, schedVars, procVars, workerVars>>

\* part_002 lines 1029-1050: depositIdleTokens is sent to the next strategy
\* of the page; a failure is caught at lines 1046-1049.
processIdleStrategies ==
    /\ job = "processIdleStrategies"
    /\ bpc = "strategies"
    /\ strategyIdx < pageLen
    /\ strategyIdx' = strategyIdx + 1
    /\ processed' = Append(processed, <<pageNo, strategyIdx + 1>>)
    /\ \/ /\ failure' = Caught("writeFailed", strategyIdx + 1, 0)
          /\ bpc' = "strategies"
          /\ UNCHANGED <<inFlight, writes>>
       \/ /\ Sent("strategies")
          /\ UNCHANGED failure
    /\ UNCHANGED <<job, pageLens, nextCursor, rewardsLen, rewardIdx, optVars, compVars, schedVars, procVars, workerVars>>

\* part_000 lines 146-149, strategy-optimizer.ts lines 89-92, part_002 lines
\* 1040-1042: the receipt wait of a write settles, by returning the receipt
\* or by throwing into the catch of the reward or strategy.  After the
\* receipt of a rebalance the row is written (strategy-optimizer.ts lines
\* 214-221, 273-281), which can fail.
waitForTransactionReceipt ==
    /\ inFlight > 0
    /\ inFlight' = inFlight - 1
    /\ IF bpc = "wait"
       THEN IF job = "processRewards"
            THEN \/ /\ bpc' = "swap"
                    /\ UNCHANGED failure
                 \/ /\ bpc' = AfterRewardFailure
                    /\ failure' = Caught("claimFailed", strategyIdx, rewardIdx)
            ELSE \/ /\ bpc' = "strategies"
                    /\ UNCHANGED failure
                 \/ /\ bpc' = "strategies"
                    /\ failure' = Caught("writeFailed", strategyIdx, 0)
                 \/ /\ job = "optimizeStrategyPositions"
                    /\ bpc' = AfterStoreFailure
                    /\ failure' = Caught("storeWriteFailed", strategyIdx, 0)
       ELSE UNCHANGED <<bpc, failure>>
    /\ UNCHANGED <<job, pageLens, nextCursor, strategyIdx, rewardsLen, rewardIdx, processed,
                   writes, optVars, compVars, schedVars, procVars, workerVars>>

\* part_002 lines 902-904, 966-968, 1052-1054: after the last strategy of
\* the page the cursor decides between another page and the end of the run.
endOfPage ==
    /\ bpc = "strategies"
    /\ strategyIdx = pageLen
    /\ bpc' = IF ContinuePaging(nextCursor) THEN "fetch" ELSE "done"
    /\ UNCHANGED <<job, pageLens, nextCursor, strategyIdx, rewardsLen, rewardIdx, processed,
                   failure, inFlight, writes, optVars, compVars, schedVars, procVars, workerVars>>

NextBatch ==
    \/ getAPYDataOfRun
    \/ fetchStrategies
    \/ compoundStrategies
    \/ processReward
    \/ createSwapOrderOutcome
    \/ optimizeStrategyPositions
    \/ processIdleStrategies
    \/ waitForTransactionReceipt
    \/ endOfPage

BatchAtRest ==
    /\ job = "processRewards"
    /\ bpc = "off"
    /\ pageLens = <<>>
    /\ nextCursor = 0
    /\ strategyIdx = 0
    /\ rewardsLen = 0
    /\ rewardIdx = 0
    /\ processed = <<>>
    /\ failure = NoFailure
    /\ inFlight = 0
    /\ writes = 0

----------------------------------------------------------------------------
(* The swap of a reward in the scheduled worker: src/index.ts lines        *)
(* 1128-1175 with encodeOrderForSignature of lines 898-966.  Times are in   *)
(* minutes here, so that the largest uint32 number of seconds can be       *)
(* written.                                                                *)

\* Times of a run (minutes).
WorkerTimes == {1000, 2000}

\* The validity the venue gives a quote that asks for none (index.ts lines
\* 991-1009 set neither validTo nor validFor): half an hour.
QuoteValidity == 1800 \div 60

\* index.ts line 942: MAX_UINT32 = 4294967295 seconds, in whole minutes.
MAX_UINT32 == 71582788

NoEncodedOrder == [built |-> FALSE, sellAmount |-> 0, buyAmount |-> "none", validTo |-> 0]

\* index.ts lines 940-958: the order that is hashed takes the sell amount
\* of the parameters, and MAX_UINT256 and MAX_UINT32 for buyAmount and
\* validTo.
encodeOrder(params) ==
    [built |-> TRUE, sellAmount |-> params.sellAmount, buyAmount |-> "MAX_UINT256",
     validTo |-> MAX_UINT32]

InitWorker ==
    /\ workerPc = "getSwapQuote"
    /\ workerTime \in WorkerTimes
    /\ quoteParams = NoQuote
    /\ encodedOrder = NoEncodedOrder
    /\ sentOrder = NoQuote

\* index.ts lines 1138-1143 (getSwapQuote, 984-1023): the quote for the
\* balance of the strategy; a failure is caught at lines 1194-1196.
workerGetSwapQuote ==
    /\ workerPc = "getSwapQuote"
    /\ \/ /\ workerPc' = "done"
          /\ UNCHANGED quoteParams
       \/ \E tokenBalance \in AmountValues \ {0} :
          \E quote \in Quotes(tokenBalance, 0) :
            /\ quoteParams' = [quote EXCEPT !.validTo = workerTime + QuoteValidity]
            /\ workerPc' = "encodeOrderForSignature"
    /\ UNCHANGED <<workerTime, encodedOrder, sentOrder, optVars, compVars, schedVars,
                   batchVars, procVars>>

\* index.ts lines 1149-1167: orderParams repeats the quote and
\* encodeOrderForSignature hashes the order.
workerEncodeOrderForSignature ==
    /\ workerPc = "encodeOrderForSignature"
    /\ encodedOrder' = encodeOrder(quoteParams)
    /\ workerPc' = "sendOrder"
    /\ UNCHANGED <<workerTime, quoteParams, sentOrder, optVars, compVars, schedVars,
                   batchVars, procVars>>

\* index.ts lines 1170-1185: the OrderCreation spreads orderParams and is
\* sent; a rejection is caught and logged.
workerSendOrder ==
    /\ workerPc = "sendOrder"
    /\ sentOrder' = quoteParams
    /\ workerPc' \in {"done", "rejected"}
    /\ UNCHANGED <<workerTime, quoteParams, encodedOrder, optVars, compVars, schedVars,
                   batchVars, procVars>>

NextWorker ==
    \/ workerGetSwapQuote
    \/ workerEncodeOrderForSignature
    \/ workerSendOrder

WorkerAtRest ==
    /\ workerPc = "off"
    /\ workerTime = 0
    /\ quoteParams = NoQuote
    /\ encodedOrder = NoEncodedOrder
    /\ sentOrder = NoQuote

----------------------------------------------------------------------------
(* Specifications.  The optimizer task, the compounding task and the       *)
(* scheduler share no state in this model, so each has its own            *)
(* specification with the others at rest.                                 *)

SchedulerAtRest ==
    /\ tasks = [id \in TaskIds |-> RegisteredTask]
    /\ schedPc = "off"
    /\ schedIdx = 1
    /\ instances = [id \in TaskIds |-> 0]
    /\ outcomes = [id \in TaskIds |-> "none"]

\* The process runs, configured and with its store initialised.
ProcessAtRest ==
    /\ env = EnvNames
    /\ store = "ready"

CompounderAtRest ==
    /\ pipeline = "modular"
    /\ minUsdValueThreshold = PriceUnit
    /\ strategyAddress = StrategyAddress
    /\ returned = NoReward
    /\ cpc = "idle"
    /\ reward = NoReward
    /\ loc = NoLoc
    /\ calls = <<>>

OptimizerAtRest ==
    /\ lastAttempt = NoAttempt
    /\ variant = 1
    /\ position = NoPosition
    /\ chainSplit = Split(0, SplitTotal(1))
    /\ apyData = NoApy
    /\ sameInput = FALSE
    /\ optPc = "init"
    /\ lastEnd = "none"
    /\ run = NoRun

Init ==
    /\ InitOptimizer /\ CompounderAtRest /\ SchedulerAtRest /\ BatchAtRest /\ ProcessAtRest
    /\ WorkerAtRest

Next ==
    \/ getAPYData
    \/ processStrategyOptimization
    \/ processStrategyOptimizationLegacy

Spec == Init /\ [][Next]_vars

InitCompound ==
    /\ InitCompounder /\ OptimizerAtRest /\ SchedulerAtRest /\ BatchAtRest /\ ProcessAtRest
    /\ WorkerAtRest

SpecCompound == InitCompound /\ [][NextCompound]_vars

\* The event loop runs every continuation that is ready: the scheduler's
\* steps are weakly fair.
InitSchedulerRun ==
    /\ InitScheduler /\ OptimizerAtRest /\ CompounderAtRest /\ BatchAtRest /\ ProcessAtRest
    /\ WorkerAtRest

SpecScheduler ==
    /\ InitSchedulerRun
    /\ [][NextScheduler]_vars
    /\ WF_vars(NextScheduler)

\* Every await of a run settles: the steps of a run are weakly fair.
InitBatchRun ==
    /\ InitBatch /\ OptimizerAtRest /\ CompounderAtRest /\ SchedulerAtRest /\ ProcessAtRest
    /\ WorkerAtRest

SpecBatch ==
    /\ InitBatchRun
    /\ [][NextBatch]_vars
    /\ WF_vars(NextBatch)

\* The server from the load of its module on.
InitStartup ==
    InitProcess /\ OptimizerAtRest /\ CompounderAtRest /\ BatchAtRest /\ WorkerAtRest

\* The swap of one reward in the scheduled worker.
InitWorkerRun ==
    /\ InitWorker /\ OptimizerAtRest /\ CompounderAtRest /\ SchedulerAtRest /\ BatchAtRest
    /\ ProcessAtRest

SpecWorker == InitWorkerRun /\ [][NextWorker]_vars

SpecStartup ==
    /\ InitStartup
    /\ [][NextStartup]_vars
    /\ WF_vars(NextStartup)

----------------------------------------------------------------------------
(* Properties of the position optimizer.                                   *)
(* `run` describes the processStrategyOptimization call of the cycle once  *)
(* optPc = "completed"; apyData is then still the reading the call used.   *)

RunDone == optPc = "completed"

SteadyRun == RunDone /\ run.branch = "steady"

SeedRun == RunDone /\ run.branch = "seed"

apyImprovementOfRun == apyData.bestAPY - run.before.apy

PersistedSplitBefore == SplitOfPosition(run.before)

\* The split the specification recommends for a pair of APYs, on the scale
\* of the deployed variant.
RecommendedSplit(marketAPY, vaultAPY) ==
    LET T == SplitTotal(variant) IN
    IF marketAPY > vaultAPY THEN Split(T, 0)
    ELSE IF vaultAPY > marketAPY THEN Split(0, T)
    ELSE Split(T \div 2, T \div 2)

\* The run saw a principal of 100 USDC, or belongs to the variant that
\* rebalances without looking at the principal.
PrincipalOf100 == run.balanceRead => run.usdcBalance = 1000

\* C1: in a steady-state run an updatePosition transaction is issued, and
\* the persisted split changes, only if bestApy - persistedApy >= 1.0
\* percentage points and the recommended split differs from the persisted
\* one; from a persisted apy of 5.0 a bestApy of 5.5 issues no transaction,
\* a bestApy of 6.0 with a differing split and a principal of 100 issues it.
C1_RebalanceOnlyOnImprovement ==
    SteadyRun =>
        /\ (run.tx # <<>> \/ SplitOfPosition(position) # PersistedSplitBefore)
              => /\ apyImprovementOfRun >= 1000
                 /\ apyData.bestSplit # PersistedSplitBefore
        /\ (run.before.apy = 5000 /\ apyData.bestAPY = 5500) => run.tx = <<>>
        /\ (run.before.apy = 5000 /\ apyData.bestAPY = 6000
              /\ apyData.bestSplit # PersistedSplitBefore /\ PrincipalOf100)
              => run.tx = <<apyData.bestSplit>>

C1_Witness ==
    /\ SteadyRun
    /\ run.before.apy = 5000
    /\ apyData.bestAPY = 6000
    /\ run.tx = <<apyData.bestSplit>>
    /\ SplitOfPosition(position) # PersistedSplitBefore

\* C2 (as claimed): after every steady-state run that ended without an
\* error the persisted apy is the bestApy of that run (at the two decimals
\* the store keeps), whether or not a rebalance was issued.
C2_ApyAlwaysOverwritten ==
    (SteadyRun /\ ~run.threw) => position.apy = RoundNumeric(apyData.bestAPY)

C7_NoSeedRebalanceWhenMatching ==
    (SeedRun /\ apyData.bestSplit = run.chainBefore)
        => /\ run.tx = <<>>
           /\ position.exists => SplitOfPosition(position) = run.chainBefore

\* C8 (as claimed): a steady-state run that sees a principal of 0.3 USDC,
\* with an improvement and a split difference that warrant a rebalance,
\* issues no updatePosition and still stores the new bestApy.
C8_DustGateAtHalfUnit ==
    (SteadyRun /\ run.balanceRead /\ run.usdcBalance = 3
        /\ apyImprovementOfRun >= 1000 /\ apyData.bestSplit # PersistedSplitBefore)
        => /\ run.tx = <<>>
           /\ ~run.threw => position.apy = RoundNumeric(apyData.bestAPY)

\* C8 (amended): a steady-state run that sees a principal of zero, with an
\* improvement and a split difference that warrant a rebalance, issues no
\* updatePosition, keeps the persisted split and still stores the new
\* bestApy (at the two decimals of the apy column).
C8_ZeroBalanceGate ==
    (SteadyRun /\ run.balanceRead /\ run.usdcBalance = 0
        /\ apyImprovementOfRun >= 1000 /\ apyData.bestSplit # PersistedSplitBefore)
        => /\ run.tx = <<>>
           /\ ~run.threw => position = [run.before EXCEPT !.apy = RoundNumeric(apyData.bestAPY)]

\* Persisted apy 5.0, market 6.3, vault 5.0, nothing to move: apy becomes 6.3.
C8_Witness ==
    /\ SteadyRun
    /\ run.balanceRead
    /\ run.usdcBalance = 0
    /\ run.before.apy = 5000
    /\ apyData.marketAPY = 6300
    /\ apyData.vaultAPY = 5000
    /\ apyData.bestSplit # PersistedSplitBefore
    /\ run.tx = <<>>
    /\ position.apy = 6300

C10_BestSplit ==
    apyData.exists =>
        /\ apyData.marketAPY > apyData.vaultAPY
              => apyData.bestSplit = Split(SplitTotal(variant), 0)
        /\ apyData.vaultAPY > apyData.marketAPY
              => apyData.bestSplit = Split(0, SplitTotal(variant))
        /\ apyData.marketAPY = apyData.vaultAPY
              => apyData.bestSplit = Split(SplitTotal(variant) \div 2, SplitTotal(variant) \div 2)
        /\ (RunDone /\ run.tx # <<>>)
              => run.tx = <<RecommendedSplit(apyData.marketAPY, apyData.vaultAPY)>>

C10_Witness ==
    /\ RunDone
    /\ apyData.marketAPY = apyData.vaultAPY
    /\ run.tx = <<Split(SplitTotal(variant) \div 2, SplitTotal(variant) \div 2)>>

----------------------------------------------------------------------------
(* Properties of reward compounding.                                       *)
(* `calls` lists the external calls made for the current reward, `loc`     *)
(* what the processing has read and decided so far.                        *)

\* Orders handed to isValidSignature or to the venue for this reward.
OrdersOfReward ==
    {calls[i].order : i \in {k \in DOMAIN calls : calls[k].op \in {"isValidSignature", "sendOrder"}}}

\* The USD estimate of an amount at an oracle answer, in USD units.
UsdEstimate(amount, answer) ==
    (amount * (IF answer < 0 THEN -answer ELSE answer)) \div TokenUnit

\* C3: an order is sent to the venue only after isValidSignature has been
\* simulated on that same order and has returned the magic value or has
\* reverted on a stale price feed; after any other validation result no
\* order is sent for the reward.
C3_SubmitOnlyAfterValidation ==
    /\ \A i \in DOMAIN calls :
          calls[i].op = "sendOrder" =>
              /\ \E j \in 1..(i - 1) :
                    calls[j].op = "isValidSignature" /\ calls[j].order = calls[i].order
              /\ loc.sig \in {"magic", "staleHeartbeat", "staleMaxTime"}
    /\ cpc = "sendOrder" =>
          /\ HasCall("isValidSignature")
          /\ loc.sig \in {"magic", "staleHeartbeat", "staleMaxTime"}
    /\ loc.sig \in {"otherValue", "emptyResult", "revertOther", "nullData"} =>
          ~HasCall("sendOrder") /\ cpc = "idle"

\* An order validated provisionally (stale price feed) and accepted by the venue.
C3_Witness ==
    /\ loc.end = "submitted"
    /\ loc.sig = "staleHeartbeat"
    /\ Len(calls) >= 2
    /\ calls[Len(calls)].op = "sendOrder"
    /\ calls[Len(calls) - 1].op = "isValidSignature"
    /\ calls[Len(calls) - 1].order = calls[Len(calls)].order

C5_ThresholdGate ==
    /\ loc.valued =>
          ((cpc = "claimReward" \/ HasCall("claimReward"))
              <=> UsdEstimate(reward.supplyRewardsAmount, loc.rewardAnswer) >= minUsdValueThreshold)
    /\ loc.swapValued =>
          ((cpc = "getSwapQuote" \/ HasCall("getQuote"))
              <=> UsdEstimate(loc.tokenBalance, loc.balanceAnswer) >= minUsdValueThreshold)
    /\ ~loc.valued => ~HasCall("claimReward") /\ cpc # "claimReward"
    /\ ~loc.swapValued => ~HasCall("getQuote") /\ cpc # "getSwapQuote"

\* A reward worth exactly the threshold is claimed; the balance then read is
\* worth one USD unit less than the threshold and is not swapped.
C5_Witness ==
    /\ loc.valued
    /\ UsdEstimate(reward.supplyRewardsAmount, loc.rewardAnswer) = minUsdValueThreshold
    /\ HasCall("claimReward")
    /\ loc.claimOutcome = "success"
    /\ loc.swapValued
    /\ UsdEstimate(loc.tokenBalance, loc.balanceAnswer) = minUsdValueThreshold - 1
    /\ loc.end = "belowThreshold"
    /\ ~HasCall("getQuote")

\* C11: the validation result is valid exactly when isValidSignature
\* returns the magic value or reverts with one of the stale price-feed
\* messages; every other return value and every other failure is invalid.
C11_ValidExactlyOnMagicOrStale ==
    loc.sig # "none" =>
        /\ loc.isValid <=> loc.sig \in {"magic", "staleHeartbeat", "staleMaxTime"}
        /\ loc.isValid <=> (cpc = "sendOrder" \/ HasCall("sendOrder"))

\* A revert with another reason ends the reward as invalid.
C11_Witness ==
    /\ loc.sig = "revertOther"
    /\ ~loc.isValid
    /\ loc.end = "invalid"
    /\ calls[Len(calls)].op = "isValidSignature"

\* C13: when the reward is worth the threshold the balance is read only
\* after the claim transaction was sent and its receipt wait returned, and
\* the amount valued and quoted for the swap is the balance read, whatever
\* the claimable amount of the reward was.
C13_SwapsPostClaimBalance ==
    /\ \A i \in DOMAIN calls :
          (calls[i].op = "balanceOf" /\ loc.valued
              /\ UsdEstimate(reward.supplyRewardsAmount, loc.rewardAnswer) >= minUsdValueThreshold)
          => /\ \E j \in 1..(i - 1) : calls[j].op = "claimReward"
             /\ loc.claimOutcome \in {"success", "reverted"}
    /\ \A i \in DOMAIN calls :
          calls[i].op = "getQuote" =>
              /\ calls[i].amount = loc.tokenBalance
              /\ \E j \in 1..(i - 1) : calls[j].op = "balanceOf"

\* One token claimable and claimed, two tokens found on the strategy: the
\* quote is asked for two.
C13_Witness ==
    /\ reward.supplyRewardsAmount = TokenUnit
    /\ loc.claimOutcome = "success"
    /\ loc.tokenBalance = 2 * TokenUnit
    /\ Len(calls) >= 5
    /\ calls[2].op = "claimReward"
    /\ calls[3].op = "balanceOf"
    /\ calls[5].op = "getQuote"
    /\ calls[5].amount = 2 * TokenUnit

\* C14 (as claimed): a reward whose token has no price feed or whose
\* claimable amount is zero causes no claim transaction, no quote request
\* and no order.
C14_NothingForUnpricedOrEmptyReward ==
    (reward # NoReward /\ (~reward.hasTokenPriceFeed \/ reward.supplyRewardsAmount = 0)) =>
        /\ ~HasCall("claimReward")
        /\ ~HasCall("getQuote")
        /\ ~HasCall("isValidSignature")
        /\ ~HasCall("sendOrder")

\* C19 (as claimed): every order handed to validation asks for at least
\* floor(expectedOut * (10000 - allowedSlippageInBps) / 10000), where
\* expectedOut was read from the swap checker or, when that read reverted on
\* a stale price feed, is floor(quoteBuyAmount * 9800 / 10000).  Stated for
\* slippage allowances up to 10000.
C19_MinBuyAmountFromExpectedOut ==
    \A i \in DOMAIN calls :
        (calls[i].op = "isValidSignature" /\ loc.allowedSlippageInBps <= 10000) =>
            /\ loc.expectedOutRead \in {"ok", "stale"}
            /\ loc.expectedOutRead = "stale" =>
                  loc.expectedOut = (loc.quote.buyAmount * 9800) \div 10000
            /\ calls[i].order.buyAmount =
                  (loc.expectedOut * (10000 - loc.allowedSlippageInBps)) \div 10000

\* C20 (as claimed): a failed read of allowedSlippageInBps leaves the
\* allowance at 30 bps and never ends the processing of the reward.
C20_SlippageReadFailureFallsBack ==
    /\ loc.encodeSlippageRead = "failed" => loc.encodeSlippage = 30
    /\ loc.slippageRead = "failed" =>
          /\ loc.allowedSlippageInBps = 30
          /\ loc.end # "slippageFailed"

----------------------------------------------------------------------------
(* Properties of the task scheduler.                                       *)

TasksRunning == {id \in TaskIds : instances[id] > 0}

\* C15: a task never has two invocations running at once, and while an
\* invocation runs the task's running flag is set, which is what makes a
\* pass of the scheduler skip it.
C15_NoOverlappingInstances ==
    \A id \in TaskIds :
        /\ instances[id] <= 1
        /\ instances[id] = 1 => tasks[id].running
        /\ tasks[id].running => instances[id] = 1

\* The first task runs for the second time: the other two, which come
\* after it in the first pass, have run, the last one an interval ago.
C15_Witness ==
    /\ instances[1] = 1
    /\ tasks[1].running
    /\ tasks[1].sinceLastRun = 0
    /\ tasks[2].sinceLastRun >= 0
    /\ tasks[3].sinceLastRun = interval
    /\ schedPc = "await"

\* C16 (as claimed): tasks of different types come to run at the same time.
\* All three are due at the first pass of the scheduler.
C16_TwoTypesRunTogether ==
    <>(\E a, b \in TaskIds : a # b /\ instances[a] > 0 /\ instances[b] > 0)

\* C16 (amended): the scheduler awaits each task inside its loop, so at
\* most one task of any type is running at any time; a task that is due
\* while another one runs waits for it.
C16_AtMostOneTaskRunning ==
    /\ Cardinality(TasksRunning) <= 1
    /\ TasksRunning # {} => (schedPc = "await" /\ TasksRunning = {schedIdx})

\* The optimizer task is running and the compounding task, due again, has
\* not been started.
C16_Witness ==
    /\ instances[2] = 1
    /\ instances[1] = 0
    /\ tasks[1].sinceLastRun = interval
    /\ IsDue(tasks[1])
    /\ schedPc = "await"

----------------------------------------------------------------------------
(* Properties of a run of a listing task.                                  *)

\* How often the strategy at index s of page p was handed to processing.
TimesProcessed(p, s) == Cardinality({i \in DOMAIN processed : processed[i] = <<p, s>>})

\* Every strategy of the first n pages was handed to processing once.
PagesProcessedOnce(n) ==
    \A p \in 1..n : \A s \in 1..pageLens[p] : TimesProcessed(p, s) = 1

\* C12: a failure of a strategy or of a reward is caught where it happens.
\* When the loop leaves a strategy every reward fetched for it has been
\* processed, when it leaves a page every strategy of the page has been
\* processed, and the run is ended early by a failed page fetch only, which
\* comes after the last strategy of the page before.
C12_FailureNeverAbortsBatch ==
    /\ (job = "processRewards" /\ bpc \in {"strategies", "fetch", "done", "aborted"}) =>
          rewardIdx = rewardsLen
    /\ (bpc \in {"fetch", "done", "aborted"} /\ pageNo >= 1) =>
          /\ strategyIdx = pageLen
          /\ PagesProcessedOnce(pageNo)

\* The order of the first reward of the first strategy was rejected; the
\* run went on through two pages of two strategies each and ended normally.
C12_Witness ==
    /\ job = "processRewards"
    /\ failure = [kind |-> "orderRejected", page |-> 1, strategy |-> 1, reward |-> 1]
    /\ bpc = "done"
    /\ pageLens = <<2, 2>>
    /\ Len(processed) = 4
    /\ rewardIdx = 2

\* C17: a run never has two write transactions in flight: while the receipt
\* wait of a write has not settled the run stands at that wait, so the next
\* write is sent only afterwards.
C17_WritesSequential ==
    /\ inFlight <= 1
    /\ inFlight = 1 <=> bpc = "wait"

\* The write for the second strategy is in flight after the write for the
\* first one has settled.
C17_Witness ==
    /\ writes = 2
    /\ inFlight = 1
    /\ strategyIdx = 2
    /\ bpc = "wait"

\* C18: a run ends normally only on a null cursor; whenever it asks for a
\* page or has ended, every strategy of every page fetched so far has been
\* processed exactly once; and once a null cursor has been returned the run
\* ends.
C18_FollowsCursorUntilNull ==
    /\ [](/\ bpc = "done" => nextCursor = 0
          /\ (bpc \in {"fetch", "done"} /\ pageNo >= 1) =>
                /\ PagesProcessedOnce(pageNo)
                /\ \A i, j \in DOMAIN processed : processed[i] = processed[j] => i = j
          /\ (bpc = "fetch" /\ pageNo >= 1) => nextCursor # 0)
    /\ (bpc = "strategies" /\ nextCursor = 0) ~> (bpc = "done")

\* Two pages were fetched, the second with a null cursor, and the run ended
\* with the three strategies processed.
C18_Witness ==
    /\ bpc = "done"
    /\ pageLens = <<2, 1>>
    /\ nextCursor = 0
    /\ processed = << <<1, 1>>, <<1, 2>>, <<2, 1>> >>

\* C21 (as claimed): every order handed to validation carries the digest
\* of a document whose pre-hook transfers floor(sellAmount * compoundFeeBps
\* / 10000), where compoundFeeBps was read from the strategy before the
\* order was built and sellAmount is the amount the order sells.
C21_FeeFromStrategyInAppData ==
    \A i \in DOMAIN calls :
        calls[i].op = "isValidSignature" =>
            /\ loc.compoundFeeRead = "ok"
            /\ \E j \in 1..(i - 1) : calls[j].op = "compoundFee"
            /\ calls[i].order.appData.transfer =
                  (calls[i].order.sellAmount * loc.compoundFeeBps) \div 10000

\* C22 (as claimed): the order handed to validation sells the quoted sell
\* amount less the protocol fee floor(quotedSell * compoundFeeBps / 10000),
\* which is the fee its appData hook moves.
C22_SellAmountLessProtocolFee ==
    \A i \in DOMAIN calls :
        calls[i].op = "isValidSignature" =>
            /\ calls[i].order.appData.transfer =
                  (loc.quote.sellAmount * loc.compoundFeeBps) \div 10000
            /\ calls[i].order.sellAmount =
                  loc.quote.sellAmount - calls[i].order.appData.transfer

\* C23: whatever the amount and the sign of the oracle answer, the USD
\* value the engine compares with the threshold is amount * |answer| /
\* 10^tokenDecimals, in the oracle's units, and is never negative; this
\* holds for the valuation of the claimable amount and for the valuation of
\* the balance.
C23_UsdEstimateIsAbsolute ==
    /\ loc.valued =>
          /\ loc.rewardsUsdValue = UsdEstimate(reward.supplyRewardsAmount, loc.rewardAnswer)
          /\ loc.rewardsUsdValue >= 0
    /\ loc.swapValued =>
          /\ loc.balanceUsdValue = UsdEstimate(loc.tokenBalance, loc.balanceAnswer)
          /\ loc.balanceUsdValue >= 0

\* Two tokens valued at a negative answer of one USD: two USD.
C23_Witness ==
    /\ loc.valued
    /\ reward.supplyRewardsAmount = 2 * TokenUnit
    /\ loc.rewardAnswer = -PriceUnit
    /\ loc.rewardsUsdValue = 2 * PriceUnit

\* C24: after any sequence of optimizer runs, the row of table positions,
\* when there is one, has split_mtoken + split_vault equal to the split
\* total of the deployment (10000; 100 in the earlier variant of the
\* optimizer).
C24_PersistedSplitSumsToTotal ==
    position.exists =>
        position.split_mtoken + position.split_vault = SplitTotal(variant)

\* A steady run rebalanced a 0/10000 row to the market side and stored it.
C24_Witness ==
    /\ SteadyRun
    /\ variant = 1
    /\ ~run.threw
    /\ PersistedSplitBefore = Split(0, 10000)
    /\ run.tx = <<Split(10000, 0)>>
    /\ position.exists
    /\ SplitOfPosition(position) = Split(10000, 0)

\* C25 (as claimed): once a read or a write of the store failed for a
\* strategy, no strategy after it in the list, on its page or on a later
\* page, is handed to processing in that run.
C25_StoreFailureAbortsCycle ==
    failure.kind \in StoreFailures =>
        \A i \in DOMAIN processed :
            \/ processed[i][1] < failure.page
            \/ processed[i][1] = failure.page /\ processed[i][2] <= failure.strategy

\* C25 (amended): a failure of the store is caught in the processing of the
\* strategy it happened for; the run leaves a page only after the last
\* strategy of the page, with every strategy of every page fetched so far
\* handed to processing once, and is ended early by a failed page fetch
\* only.
C25_StoreFailureSkipsOneStrategy ==
    (job = "optimizeStrategyPositions" /\ failure.kind \in StoreFailures) =>
        (bpc \in {"fetch", "done", "aborted"} =>
            /\ strategyIdx = pageLen
            /\ PagesProcessedOnce(pageNo))

\* The read of the row of the first strategy failed; the three strategies
\* after it were processed and the run ended normally.
C25_Witness ==
    /\ job = "optimizeStrategyPositions"
    /\ failure = [kind |-> "storeReadFailed", page |-> 1, strategy |-> 1, reward |-> 0]
    /\ bpc = "done"
    /\ pageLens = <<2, 2>>
    /\ processed = << <<1, 1>>, <<1, 2>>, <<2, 1>>, <<2, 2>> >>

----------------------------------------------------------------------------
(* Properties of the startup of the server.                                *)

\* C26 (as claimed): with a required configuration value missing no task
\* is ever called: the process has stopped before the scheduler could
\* start one.
C26_MissingConfigFatalAtStartup ==
    env # EnvNames =>
        \A id \in TaskIds : instances[id] = 0 /\ outcomes[id] = "none"

\* C27: while initializeDatabase has not succeeded no task was ever called
\* (no invocation is pending, none has ended and no lastRun is stamped),
\* and when it has failed the process has exited.
C27_NoRunBeforeStoreReady ==
    /\ store # "ready" =>
          \A id \in TaskIds :
              /\ instances[id] = 0
              /\ outcomes[id] = "none"
              /\ tasks[id] = RegisteredTask
    /\ store = "failed" => schedPc = "exited"

\* The store could not be initialised and the process has exited.
C27_Witness ==
    /\ store = "failed"
    /\ schedPc = "exited"
    /\ \A id \in TaskIds : tasks[id] = RegisteredTask

\* C28: a run of the optimizer whose reading of the yield feed failed (no
\* market entry, no vault entry or no APY field) has ended in the catch of
\* the task without asking for a page: no strategy was handed to
\* processing, so no row was read, inserted or updated, and no transaction
\* was sent.  The task returned normally to the scheduler.
C28_FeedFailureSkipsCycle ==
    failure.kind = "feedFailed" =>
        /\ bpc = "aborted"
        /\ pageLens = <<>>
        /\ processed = <<>>
        /\ writes = 0
        /\ inFlight = 0

\* The optimizer run ended on the failed reading of the feed.
C28_Witness ==
    /\ job = "optimizeStrategyPositions"
    /\ failure = [kind |-> "feedFailed", page |-> 0, strategy |-> 0, reward |-> 0]
    /\ bpc = "aborted"

----------------------------------------------------------------------------
(* Retrying over successive cycles of the optimizer.                       *)

\* The last call left a warranted rebalance undone: its balance lookup
\* failed, or the transaction it sent reverted or never went out.
FailedAttempt(a) ==
    \/ a.lookupFailed
    \/ a.tx # <<>> /\ a.txOutcome \in {"reverted", "sendError", "waitDropped"}

\* C29 (as claimed): when the last call left a rebalance undone and the
\* next cycle finds the world as it was (the same APY reading, the contract
\* still not at the best split) with every read answering and a positive
\* balance, the call of that cycle sends the rebalance again.
C29_FailedActionRetriedNextCycle ==
    [][(/\ optPc = "run"
        /\ optPc' = "completed"
        /\ sameInput
        /\ FailedAttempt(lastAttempt)
        /\ chainSplit # apyData.bestSplit
        /\ lastAttempt'.readsOk
        /\ lastAttempt'.balOk
        /\ lastAttempt'.balance > 0)
       => run'.tx = <<apyData.bestSplit>>]_vars

----------------------------------------------------------------------------
(* Expiry of the orders.                                                   *)

\* C30 (as claimed): every order the engine builds expires half an hour
\* after the time it was built at, never later: the orders validated and
\* sent by the two compounding pipelines (seconds), and the order hashed
\* and the order sent by the scheduled worker (minutes).
C30_ValidToShortWindow ==
    /\ \A i \in DOMAIN calls :
          calls[i].op \in {"isValidSignature", "sendOrder"} =>
              \E t \in BlockTimestamps : calls[i].order.validTo = t + 1800
    /\ encodedOrder.built => encodedOrder.validTo = workerTime + QuoteValidity
    /\ workerPc \in {"done", "rejected"} /\ sentOrder # NoQuote =>
          sentOrder.validTo = workerTime + QuoteValidity

----------------------------------------------------------------------------
(* The persisted split and the contract.                                   *)

\* C31 (as claimed): a run that ended without throwing and left a row with
\* another split than the row had before sent updatePosition with exactly
\* that split and saw it succeed; and after such a run the split of the
\* row is the split the contract holds.
C31_PersistedSplitTracksChain ==
    (RunDone /\ ~run.threw /\ position.exists) =>
        /\ (run.before.exists /\ SplitOfPosition(position) # PersistedSplitBefore) =>
              /\ run.tx = <<SplitOfPosition(position)>>
              /\ run.txOutcome = "success"
        /\ SplitOfPosition(position) = chainSplit

----------------------------------------------------------------------------
(* The order as hashed, as encoded and as sent.                            *)

\* C32: once isValidSignature was simulated, the struct hashed into the
\* digest and the tuple passed as the signature are the same twelve fields;
\* and an order that was sent is, once its kind and balance names are
\* hashed as the venue does, that same struct, and carries that tuple as
\* its signature.
C32_DigestTupleAndOrderAgree ==
    /\ HasCall("isValidSignature") =>
          /\ loc.orderDigest = loc.signature
          /\ loc.orderDigest.sellAmount = loc.order.sellAmount
          /\ loc.orderDigest.appData = loc.order.appData
    /\ HasCall("sendOrder") =>
          /\ hashOrder(loc.orderCreation.order) = loc.orderDigest
          /\ loc.orderCreation.signature = loc.signature

\* An order with a fee hook of one base unit was validated and sent.
C32_Witness ==
    /\ HasCall("sendOrder")
    /\ loc.end = "submitted"
    /\ loc.orderDigest.appData.transfer >= 1
    /\ loc.orderDigest.kind = KIND_SELL
    /\ loc.orderCreation.order.kind = "sell"

\* C33: every quote request, and every order sent, is from the strategy
\* and to the strategy, sells the reward token for USDC, and is a sell
\* order that is not partially fillable with both balances erc20.
C33_OrdersAreStrategySellsForUsdc ==
    /\ HasCall("getQuote") =>
          /\ loc.quoteRequest.from = strategyAddress
          /\ loc.quoteRequest.receiver = strategyAddress
          /\ loc.quoteRequest.sellToken = RewardToken
          /\ loc.quoteRequest.buyToken = USDC
          /\ loc.quoteRequest.kind = "sell"
          /\ loc.quoteRequest.sellTokenBalance = "erc20"
          /\ loc.quoteRequest.buyTokenBalance = "erc20"
    /\ HasCall("sendOrder") =>
          /\ loc.orderCreation.from = strategyAddress
          /\ loc.orderCreation.order.receiver = strategyAddress
          /\ loc.orderCreation.order.sellToken = RewardToken
          /\ loc.orderCreation.order.buyToken = USDC
          /\ loc.orderCreation.order.kind = "sell"
          /\ loc.orderCreation.order.partiallyFillable = FALSE
          /\ loc.orderCreation.order.sellTokenBalance = "erc20"
          /\ loc.orderCreation.order.buyTokenBalance = "erc20"

\* An order was sent in the scheduled pipeline, after its quote.
C33_Witness ==
    /\ pipeline = "cron"
    /\ HasCall("getQuote")
    /\ HasCall("sendOrder")
    /\ loc.quoteRequest.sellAmountBeforeFee >= 1
    /\ loc.orderCreation.from = strategyAddress

----------------------------------------------------------------------------
(* The rewards that are processed.                                         *)

\* C34 (as claimed): the tuple being processed for a strategy is the tuple
\* the rewards view returned for it, whatever the address of the strategy.
C34_ProcessedRewardsAreViewed ==
    (cpc # "idle" \/ loc.end # "none") => reward = returned

\* C35 (as claimed): for every order sent, its sell amount plus the amount
\* the pre-settlement hook transfers out of the strategy is at most the
\* token balance read before the quote.
C35_SellPlusHookFeeWithinBalance ==
    HasCall("sendOrder") =>
        loc.orderCreation.order.sellAmount + loc.orderCreation.order.appData.transfer
            <= loc.tokenBalance

\* C36 (as claimed): whatever allowance the strategy returned, the minimum
\* buy amount computed from the expected output lies between 0 and the
\* expected output.
C36_MinOutWithinExpectedOut ==
    (loc.slippageRead = "ok" /\ loc.expectedOutRead \in {"ok", "stale"}) =>
        /\ 0 <= loc.minOut
        /\ loc.minOut <= loc.expectedOut

----------------------------------------------------------------------------
(* No task is starved by the scheduler loop.                               *)

\* C37: when every run of a task settles, the running flag of a task is
\* clear whenever no run of it is under way, and every registered task is
\* started again and again: none is skipped for ever.
C37_EveryTaskRunsAgain ==
    \A id \in TaskIds :
        /\ [](instances[id] = 0 => ~tasks[id].running)
        /\ []<>(instances[id] > 0)

\* Every task has run once and settled; the last of them has its flag
\* clear and is due again while the first one is running its next run.
C37_Witness ==
    /\ \A id \in TaskIds : outcomes[id] = "ran"
    /\ instances[1] = 1
    /\ tasks[1].running
    /\ instances[3] = 0
    /\ ~tasks[3].running
    /\ IsDue(tasks[3])
    /\ tasks[3].sinceLastRun # -1

----------------------------------------------------------------------------
(* When the swap stage of a reward runs.                                   *)

\* C38 (as claimed): once the processing of a reward has ended, a quote
\* was asked for exactly when the claim was skipped below the threshold or
\* its transaction succeeded, and the balance read afterwards was nonzero
\* and valued at the threshold or more; and after a claim transaction that
\* failed, or whose receipt wait failed, the balance was not read, no quote
\* was asked for and no order was sent.
C38_SwapRunsIffClaimDidNotFail ==
    (cpc = "idle" /\ loc.end # "none" /\ loc.valued) =>
        /\ HasCall("getQuote") <=>
              /\ loc.claimOutcome \in {"none", "success"}
              /\ loc.tokenBalance > 0
              /\ loc.swapValued
              /\ exceedsThreshold(loc.balanceUsdValue, minUsdValueThreshold)
        /\ loc.claimOutcome \notin {"none", "success"} =>
              /\ ~HasCall("balanceOf")
              /\ ~HasCall("getQuote")
              /\ ~HasCall("sendOrder")

----------------------------------------------------------------------------
(* The persisted apy as a baseline.                                        *)

====
